---- MODULE Spec2Model ----
(***************************************************************************)
(* homie: the reconciliation engine of src/linker.rs (link_item,           *)
(* unlink_item, unlink_from_manifest, classify_target), the status         *)
(* classifier of src/status.rs and the link / unlink passes of             *)
(* src/commands/link.rs and src/commands/unlink.rs, over a small           *)
(* filesystem with directories, regular files and symbolic links.          *)
(*                                                                         *)
(* A path is a sequence of components (<<"home", "f">> is /home/f).  The   *)
(* filesystem is a function from the physical paths that exist to nodes.   *)
(***************************************************************************)
EXTENDS Integers, Sequences, FiniteSets, TLC

VARIABLES fs, items, vars, saved, last, pre

allvars == <<fs, items, vars, saved, last, pre>>

(***************************************************************************)
(* Bounds                                                                  *)
(***************************************************************************)
\* Local::now(), to the second (what the backup suffix shows), is in 0..MaxClock
MaxClock == 1
\* symbolic links followed in one path resolution before ELOOP
MaxFollow == 3

(***************************************************************************)
(* Paths and nodes                                                         *)
(***************************************************************************)
Parent(p) == IF Len(p) = 0 THEN <<>> ELSE SubSeq(p, 1, Len(p) - 1)

FileName(p) == p[Len(p)]

\* Path::starts_with: component-wise prefix
starts_with(p, q) == Len(q) <= Len(p) /\ SubSeq(p, 1, Len(q)) = q

\* the result of a resolution that fails (ENOENT, ENOTDIR, ELOOP)
Bad == <<"?">>

NoNode == [kind |-> "none", content |-> "", link |-> <<>>, abs |-> FALSE]
DirNode == [kind |-> "dir", content |-> "", link |-> <<>>, abs |-> FALSE]
FileNode(c) == [kind |-> "file", content |-> c, link |-> <<>>, abs |-> FALSE]
\* a symbolic link whose stored value is the absolute path v
LinkNode(v) == [kind |-> "link", content |-> "", link |-> v, abs |-> TRUE]
\* a symbolic link whose stored value is the relative path v
RelLinkNode(v) == [kind |-> "link", content |-> "", link |-> v, abs |-> FALSE]

At(F, p) == IF p \in DOMAIN F THEN F[p] ELSE NoNode

IsDirAt(F, d) == d = <<>> \/ At(F, d).kind = "dir"

\* where the kernel continues from a symbolic link found in directory d
LinkDest(d, n) == IF n.abs THEN n.link ELSE d \o n.link

\* e is evaluated and its value handed to Body: one call's result used by
\* the code that follows it
Then(e, Body(_)) == Body(e)

\* stat-like resolution: the physical path of the entry p names, every
\* symbolic link (the last component included) followed; Bad if there is none
RECURSIVE Real(_, _, _)
Real(F, p, fuel) ==
    IF p = <<>> THEN <<>>
    ELSE Then(Real(F, Parent(p), fuel), LAMBDA d :
         IF d = Bad \/ ~IsDirAt(F, d) THEN Bad
         ELSE Then(At(F, Append(d, FileName(p))), LAMBDA n :
              IF n.kind = "none" THEN Bad
              ELSE IF n.kind = "link"
                   THEN IF fuel = 0 THEN Bad
                        ELSE Real(F, LinkDest(d, n), fuel - 1)
                   ELSE Append(d, FileName(p))))

\* lstat-like resolution: the directory part is followed, the last component
\* is not; the entry need not exist
LReal(F, p) ==
    IF p = <<>> THEN <<>>
    ELSE Then(Real(F, Parent(p), MaxFollow), LAMBDA d :
         IF d = Bad \/ ~IsDirAt(F, d) THEN Bad ELSE Append(d, FileName(p)))

LNode(F, p) == Then(LReal(F, p), LAMBDA q : IF q = Bad THEN NoNode ELSE At(F, q))

\* Path::exists, Path::is_symlink, Path::is_dir, Path::is_file
exists(F, p) == Real(F, p, MaxFollow) # Bad
is_symlink(F, p) == LNode(F, p).kind = "link"
is_dir(F, p) == Then(Real(F, p, MaxFollow), LAMBDA q : q # Bad /\ IsDirAt(F, q))
is_file(F, p) ==
    Then(Real(F, p, MaxFollow), LAMBDA q : q # Bad /\ At(F, q).kind = "file")

\* Path::canonicalize (only called on paths that exist)
canonicalize(F, p) == Real(F, p, MaxFollow)

\* fs::read / fs::read_to_string: the bytes, when p names a regular file
CanRead(F, p) == is_file(F, p)
ReadFile(F, p) == At(F, Real(F, p, MaxFollow)).content

\* the value fs::read_link returns, made absolute the way linker.rs and
\* status.rs do it: a relative value is joined to the link's parent, as written
resolve_link(F, p) ==
    Then(LNode(F, p), LAMBDA n : IF n.abs THEN n.link ELSE Parent(p) \o n.link)

Ok(F) == [ok |-> TRUE, fs |-> F]
Fail(F) == [ok |-> FALSE, fs |-> F]

Without(F, S) == [q \in DOMAIN F \ S |-> F[q]]
Under(F, q) == {r \in DOMAIN F : starts_with(r, q)}

\* fs::remove_file (unlink): never follows the last component
remove_file(F, p) ==
    Then(LReal(F, p), LAMBDA q :
        IF q = Bad \/ At(F, q).kind \in {"none", "dir"} THEN Fail(F)
        ELSE Ok(Without(F, {q})))

\* fs::remove_dir_all: a symbolic link is unlinked, a directory is removed
\* with everything below it, a regular file is an error (ENOTDIR)
remove_dir_all(F, p) ==
    Then(LReal(F, p), LAMBDA q :
        IF q = Bad \/ At(F, q).kind \in {"none", "file"} THEN Fail(F)
        ELSE IF At(F, q).kind = "link" THEN Ok(Without(F, {q}))
        ELSE Ok(Without(F, Under(F, q))))

\* the tree after rename(2) moved the entry qa, and what is below it, to qb
Moved(F, qa, qb) ==
    [r \in (DOMAIN F \ (Under(F, qa) \cup {qb}))
            \cup {qb \o SubSeq(m, Len(qa) + 1, Len(m)) : m \in Under(F, qa)} |->
        IF starts_with(r, qb)
        THEN F[qa \o SubSeq(r, Len(qb) + 1, Len(r))]
        ELSE F[r]]

\* fs::rename (rename(2)): the entry and what is below it move; an existing
\* regular file or link at the destination is replaced, a directory there is
\* replaced only by a directory and only when it is empty
rename(F, a, b) ==
    Then(LReal(F, a), LAMBDA qa : Then(LReal(F, b), LAMBDA qb :
        IF qa = Bad \/ qb = Bad \/ At(F, qa).kind = "none" THEN Fail(F)
        ELSE IF qa = qb THEN Ok(F)
        ELSE IF starts_with(qb, qa) THEN Fail(F)
        ELSE IF At(F, qb).kind = "dir" /\ At(F, qa).kind # "dir" THEN Fail(F)
        ELSE IF At(F, qb).kind \in {"file", "link"} /\ At(F, qa).kind = "dir" THEN Fail(F)
        ELSE IF At(F, qb).kind = "dir" /\ Under(F, qb) # {qb} THEN Fail(F)
        ELSE Ok(Moved(F, qa, qb))))

\* fs::create_dir_all: creates the missing directories; fails when a
\* component exists and is not (a link to) a directory
RECURSIVE create_dir_all(_, _)
create_dir_all(F, p) ==
    IF p = <<>> \/ is_dir(F, p) THEN Ok(F)
    ELSE IF LNode(F, p).kind # "none" THEN Fail(F)
    ELSE Then(create_dir_all(F, Parent(p)), LAMBDA r :
         IF ~r.ok THEN r
         ELSE Then(LReal(r.fs, p), LAMBDA q :
              IF q = Bad THEN Fail(r.fs)
              ELSE Ok((q :> DirNode) @@ r.fs)))

\* std::os::unix::fs::symlink(value, p): EEXIST when anything is at p
symlink(F, value, p) ==
    Then(LReal(F, p), LAMBDA q :
        IF q = Bad \/ At(F, q).kind # "none" THEN Fail(F)
        ELSE Ok((q :> LinkNode(value)) @@ F))

\* the physical file an open(p, O_CREAT | O_TRUNC) writes: symbolic links are
\* followed, a dangling one creates its destination; Bad when p is a
\* directory, its parent is missing, or the links loop
RECURSIVE WriteDest(_, _, _)
WriteDest(F, p, fuel) ==
    Then(LReal(F, p), LAMBDA q :
        IF q = Bad THEN Bad
        ELSE IF At(F, q).kind = "dir" THEN Bad
        ELSE IF At(F, q).kind = "link"
             THEN IF fuel = 0 THEN Bad
                  ELSE WriteDest(F, LinkDest(Parent(q), At(F, q)), fuel - 1)
             ELSE q)

\* fs::write(p, text)
write(F, p, text) ==
    Then(WriteDest(F, p, MaxFollow), LAMBDA q :
        IF q = Bad THEN Fail(F) ELSE Ok((q :> FileNode(text)) @@ F))

\* fs::copy(from, to): from must be a regular file (links followed); to is
\* opened with create + truncate, so copying a file onto itself empties it
copy(F, from, to) ==
    Then(WriteDest(F, to, MaxFollow), LAMBDA q :
        IF ~CanRead(F, from) \/ q = Bad THEN Fail(F)
        ELSE IF q = Real(F, from, MaxFollow) THEN Ok((q :> FileNode("")) @@ F)
        ELSE Ok((q :> FileNode(ReadFile(F, from))) @@ F))

\* the names fs::read_dir yields for a directory
read_dir(F, p) ==
    Then(Real(F, p, MaxFollow), LAMBDA d :
        {r[Len(r)] : r \in {x \in DOMAIN F : Len(x) = Len(d) + 1 /\ starts_with(x, d)}})

(***************************************************************************)
(* Results (linker.rs: LinkResult, and Err of anyhow::Result)              *)
(***************************************************************************)
\* backup_path holds the path a value carries: the backup of BackedUp, and
\* for the two classifiers the path of SymlinkToExternal and of External
Res(v, e, why, b) == [variant |-> v, entry |-> e, reason |-> why, backup_path |-> b]
Created(e) == Res("Created", e, "", <<>>)
AlreadyCorrect(e) == Res("AlreadyCorrect", e, "", <<>>)
Skipped(why) == Res("Skipped", "-", why, <<>>)
BackedUp(b, e) == Res("BackedUp", e, "", b)
Unlinked == Res("Unlinked", "-", "", <<>>)
Error == Res("Err", "-", "", <<>>)
NoRes == Res("-", "-", "", <<>>)

Out(F, r) == [fs |-> F, res |-> r]

(***************************************************************************)
(* Template rendering (template.rs)                                        *)
(***************************************************************************)
contains_key(v, k) == k \in v.defined

\* preprocess_template: {{var:default}} and {{var?}} are rewritten to
\* {{var}} when var is defined, else to the default / the empty string
preprocess_template(text, v) ==
    CASE text = "{{name:Guest}}" ->
            IF contains_key(v, "name") THEN "{{name}}" ELSE "Guest"
      [] text = "{{name?}}" ->
            IF contains_key(v, "name") THEN "{{name}}" ELSE ""
      [] OTHER -> text

\* Handlebars::render_template in non-strict mode: a missing variable
\* renders as the empty string
handlebars_render(text, v) ==
    IF text = "{{name}}"
    THEN IF contains_key(v, "name") THEN v.val["name"] ELSE ""
    ELSE text

render_string(text, v) == handlebars_render(preprocess_template(text, v), v)

(***************************************************************************)
(* linker.rs                                                               *)
(***************************************************************************)
\* Strategy::is_copy
is_copy(strategy) == strategy = "Copy"

\* Local::now().format(backup_suffix) with the default ".backup.%Y%m%d%H%M%S"
format_suffix(t) == ".backup." \o ToString(t)

backup_path(path, t) == Parent(path) \o <<FileName(path) \o format_suffix(t)>>

\* a TargetState value; only SymlinkToExternal carries a path
TargetState(state, resolved) == [state |-> state, resolved |-> resolved]

\* classify_target with the two containment tests before the existence test
classify_target_containment_first(F, target, repo_path, replaceable_paths) ==
    IF ~exists(F, target) /\ ~is_symlink(F, target) THEN TargetState("NotExists", <<>>)
    ELSE IF is_symlink(F, target)
    THEN Then(resolve_link(F, target), LAMBDA resolved :
         IF starts_with(resolved, repo_path) THEN TargetState("SymlinkToRepo", <<>>)
         ELSE IF \E p \in replaceable_paths : starts_with(resolved, p)
              THEN TargetState("SymlinkToReplaceable", <<>>)
         ELSE IF ~exists(F, resolved) THEN TargetState("BrokenSymlink", <<>>)
         ELSE TargetState("SymlinkToExternal", resolved))
    ELSE IF is_dir(F, target) THEN TargetState("Directory", <<>>)
         ELSE TargetState("RegularFile", <<>>)

\* classify_target with the replaceable roots tested before the repository root
classify_target_replaceable_first(F, target, repo_path, replaceable_paths) ==
    IF ~exists(F, target) /\ ~is_symlink(F, target) THEN TargetState("NotExists", <<>>)
    ELSE IF is_symlink(F, target)
    THEN Then(resolve_link(F, target), LAMBDA resolved :
         IF ~exists(F, resolved) THEN TargetState("BrokenSymlink", <<>>)
         ELSE IF \E p \in replaceable_paths : starts_with(resolved, p)
              THEN TargetState("SymlinkToReplaceable", <<>>)
         ELSE IF starts_with(resolved, repo_path) THEN TargetState("SymlinkToRepo", <<>>)
         ELSE TargetState("SymlinkToExternal", resolved))
    ELSE IF is_dir(F, target) THEN TargetState("Directory", <<>>)
         ELSE TargetState("RegularFile", <<>>)

classify_target(F, target, repo_path, replaceable_paths) ==
    IF ~exists(F, target) /\ ~is_symlink(F, target) THEN TargetState("NotExists", <<>>)
    ELSE IF is_symlink(F, target)
    THEN Then(resolve_link(F, target), LAMBDA resolved :
         IF ~exists(F, resolved) THEN TargetState("BrokenSymlink", <<>>)
         ELSE IF starts_with(resolved, repo_path) THEN TargetState("SymlinkToRepo", <<>>)
         ELSE IF \E p \in replaceable_paths : starts_with(resolved, p)
              THEN TargetState("SymlinkToReplaceable", <<>>)
              ELSE TargetState("SymlinkToExternal", resolved))
    ELSE IF is_dir(F, target) THEN TargetState("Directory", <<>>)
         ELSE TargetState("RegularFile", <<>>)

files_are_identical(F, source, target) == ReadFile(F, source) = ReadFile(F, target)

copy_file_with_perms(F, source, target) == copy(F, source, target)

RECURSIVE copy_dir_recursive(_, _, _)
RECURSIVE copy_entries(_, _, _, _)
copy_entries(F, source, target, names) ==
    IF names = {} THEN Ok(F)
    ELSE Then(CHOOSE x \in names : TRUE, LAMBDA n :
         Then(IF is_dir(F, Append(source, n))
              THEN copy_dir_recursive(F, Append(source, n), Append(target, n))
              ELSE copy_file_with_perms(F, Append(source, n), Append(target, n)),
              LAMBDA r :
                 IF ~r.ok THEN r ELSE copy_entries(r.fs, source, target, names \ {n})))

copy_dir_recursive(F, source, target) ==
    Then(create_dir_all(F, target), LAMBDA r :
        IF ~r.ok THEN r
        ELSE IF ~is_dir(r.fs, source) THEN Fail(r.fs)
        ELSE copy_entries(r.fs, source, target, read_dir(r.fs, source)))

\* create_symlink past its dry-run return: parent directories, the source
\* made real when it is a symlink, the link
make_symlink(F, source, target) ==
    Then(create_dir_all(F, Parent(target)), LAMBDA r1 :
        IF ~r1.ok THEN Out(r1.fs, Error)
        ELSE Then(IF is_symlink(r1.fs, source)
                  THEN canonicalize(r1.fs, source)
                  ELSE source,
                  LAMBDA resolved_source :
             IF resolved_source = Bad THEN Out(r1.fs, Error)
             ELSE Then(symlink(r1.fs, resolved_source, target), LAMBDA r2 :
                  IF ~r2.ok THEN Out(r2.fs, Error)
                  ELSE Out(r2.fs, Created("Symlink")))))

\* create_symlink without its dry-run return
create_symlink_eager(F, source, target, options) == make_symlink(F, source, target)

create_symlink(F, source, target, options) ==
    IF options.dry_run THEN Out(F, Created("Symlink"))
    ELSE make_symlink(F, source, target)

\* the replace arms without the removal of the link found at the target
replace_link_keeping(F, item, options) ==
    create_symlink(F, item.source, item.target, options)

\* the two arms of symlink_item that remove the link found at the target
replace_link(F, item, options) ==
    Then(IF options.dry_run THEN Ok(F) ELSE remove_file(F, item.target), LAMBDA r :
        IF ~r.ok THEN Out(r.fs, Error)
        ELSE create_symlink(r.fs, item.source, item.target, options))

\* the outcome of the force arm once the link is made: an error stays one
backed_up(c, b) == IF c.res.variant = "Err" THEN c ELSE Out(c.fs, BackedUp(b, "Symlink"))

\* the force arm with the target removed where it should be renamed
backup_and_link_removing(F, item, options, t) ==
    IF options.force
    THEN Then(IF options.dry_run THEN Ok(F) ELSE remove_dir_all(F, item.target), LAMBDA r :
         Then(IF r.ok \/ options.dry_run THEN r.fs ELSE remove_file(F, item.target).fs,
              LAMBDA F1 :
                 backed_up(create_symlink(F1, item.source, item.target, options),
                           backup_path(item.target, t))))
    ELSE Out(F, Skipped("file exists (use --force to backup)"))

\* the force arm taken whatever options.force says
backup_and_link_forced(F, item, options, t) ==
    Then(IF options.dry_run THEN Ok(F)
         ELSE rename(F, item.target, backup_path(item.target, t)),
         LAMBDA r :
            IF ~r.ok THEN Out(r.fs, Error)
            ELSE backed_up(create_symlink(r.fs, item.source, item.target, options),
                           backup_path(item.target, t)))

\* the force arm moving the target away and leaving its place empty
backup_and_link_unlinked(F, item, options, t) ==
    IF options.force
    THEN Then(IF options.dry_run THEN Ok(F)
              ELSE rename(F, item.target, backup_path(item.target, t)),
              LAMBDA r :
                 IF ~r.ok THEN Out(r.fs, Error)
                 ELSE Out(r.fs, BackedUp(backup_path(item.target, t), "Symlink")))
    ELSE Out(F, Skipped("file exists (use --force to backup)"))

\* the RegularFile | Directory arm of symlink_item
backup_and_link(F, item, options, t) ==
    IF options.force
    THEN Then(IF options.dry_run THEN Ok(F)
              ELSE rename(F, item.target, backup_path(item.target, t)),
              LAMBDA r :
                 IF ~r.ok THEN Out(r.fs, Error)
                 ELSE backed_up(create_symlink(r.fs, item.source, item.target, options),
                                backup_path(item.target, t)))
    ELSE Out(F, Skipped("file exists (use --force to backup)"))

symlink_item(F, item, repo_path, replaceable_paths, options, t) ==
    Then(classify_target(F, item.target, repo_path, replaceable_paths),
         LAMBDA target_state :
            IF target_state.state = "NotExists"
            THEN create_symlink(F, item.source, item.target, options)
            ELSE IF target_state.state
                       \in {"SymlinkToRepo", "SymlinkToReplaceable", "BrokenSymlink"}
            THEN replace_link(F, item, options)
            ELSE IF target_state.state = "SymlinkToExternal"
            THEN Out(F, Skipped("external symlink"))
            ELSE backup_and_link(F, item, options, t))

\* copy_item from the comparison on: files_are_identical is reached when the
\* target exists, is no link and the source is no directory (fs::read fails on
\* a directory); F1 is the tree before the removal of the target, r1 after it
copy_compare_and_copy(F1, r1, item, options) ==
    Then(~is_symlink(F1, item.target) /\ exists(F1, item.target)
            /\ ~is_dir(F1, item.source),
         LAMBDA compared :
            IF ~r1.ok THEN Out(r1.fs, Error)
            ELSE IF compared /\ (~CanRead(F1, item.source) \/ ~CanRead(F1, item.target))
            THEN Out(F1, Error)
            ELSE IF compared /\ files_are_identical(F1, item.source, item.target)
            THEN Out(F1, AlreadyCorrect("Copy"))
            ELSE IF options.dry_run THEN Out(F1, Created("Copy"))
            ELSE Then(IF is_dir(r1.fs, item.source)
                      THEN copy_dir_recursive(r1.fs, item.source, item.target)
                      ELSE copy_file_with_perms(r1.fs, item.source, item.target),
                      LAMBDA r2 :
                         IF ~r2.ok THEN Out(r2.fs, Error) ELSE Out(r2.fs, Created("Copy"))))

\* copy_item leaving a symlink at the target in place
copy_item_through_link(F, item, options) ==
    Then(IF options.dry_run THEN Ok(F) ELSE create_dir_all(F, Parent(item.target)),
         LAMBDA r0 :
            IF ~r0.ok THEN Out(r0.fs, Error)
            ELSE copy_compare_and_copy(
                    r0.fs,
                    IF ~is_symlink(r0.fs, item.target) /\ exists(r0.fs, item.target)
                       /\ is_dir(r0.fs, item.source)
                    THEN IF options.dry_run THEN Ok(r0.fs)
                         ELSE remove_dir_all(r0.fs, item.target)
                    ELSE Ok(r0.fs),
                    item, options))

copy_item(F, item, options) ==
    Then(IF options.dry_run THEN Ok(F) ELSE create_dir_all(F, Parent(item.target)),
         LAMBDA r0 :
            IF ~r0.ok THEN Out(r0.fs, Error)
            ELSE copy_compare_and_copy(
                    r0.fs,
                    IF is_symlink(r0.fs, item.target)
                    THEN IF options.dry_run THEN Ok(r0.fs)
                         ELSE remove_file(r0.fs, item.target)
                    ELSE IF exists(r0.fs, item.target) /\ is_dir(r0.fs, item.source)
                    THEN IF options.dry_run THEN Ok(r0.fs)
                         ELSE remove_dir_all(r0.fs, item.target)
                    ELSE Ok(r0.fs),
                    item, options))

\* render_template past its dry-run return
write_rendered(F, item, rendered, entry) ==
    Then(create_dir_all(F, Parent(item.target)), LAMBDA r1 :
        IF ~r1.ok THEN Out(r1.fs, Error)
        ELSE IF exists(r1.fs, item.target)
                /\ rendered = (IF CanRead(r1.fs, item.target)
                               THEN ReadFile(r1.fs, item.target)
                               ELSE "")
        THEN Out(r1.fs, AlreadyCorrect(entry))
        ELSE Then(write(r1.fs, item.target, rendered), LAMBDA r2 :
             IF ~r2.ok THEN Out(r2.fs, Error)
             ELSE Out(r2.fs, Created(entry))))

render_template(F, item, v, options) ==
    IF ~CanRead(F, item.source) THEN Out(F, Error)
    ELSE IF options.dry_run
    THEN Out(F, Created(IF is_copy(item.strategy) THEN "Copy" ELSE "Rendered"))
    ELSE write_rendered(F, item, render_string(ReadFile(F, item.source), v),
                        IF is_copy(item.strategy) THEN "Copy" ELSE "Rendered")

link_item(F, item, v, repo_path, replaceable_paths, options, t) ==
    IF item.is_template THEN render_template(F, item, v, options)
    ELSE IF is_symlink(F, item.source) /\ ~exists(F, item.source)
         THEN Out(F, Skipped("source is broken symlink"))
    ELSE IF is_copy(item.strategy) THEN copy_item(F, item, options)
    ELSE symlink_item(F, item, repo_path, replaceable_paths, options, t)

\* a removal that reports Unlinked and removes nothing
remove_target_skipping(F, target) == Out(F, Unlinked)

\* the removal unlink_item and the Copy arm of unlink_from_manifest end with
remove_target(F, target) ==
    Then(IF is_dir(F, target) /\ ~is_symlink(F, target)
         THEN remove_dir_all(F, target)
         ELSE remove_file(F, target),
         LAMBDA r : IF ~r.ok THEN Out(r.fs, Error) ELSE Out(r.fs, Unlinked))

\* fs::remove_file(target)?; Ok(Unlinked)
remove_link_or_file(F, target) ==
    Then(remove_file(F, target),
         LAMBDA r : IF ~r.ok THEN Out(r.fs, Error) ELSE Out(r.fs, Unlinked))

\* unlink_item without its test of where a link at the target points
unlink_item_any_link(F, item, options) ==
    IF ~exists(F, item.target) /\ ~is_symlink(F, item.target)
    THEN Out(F, Skipped("does not exist"))
    ELSE IF ~is_symlink(F, item.target) /\ ~item.is_template /\ ~is_copy(item.strategy)
    THEN Out(F, Skipped("not a symlink"))
    ELSE IF options.dry_run THEN Out(F, Unlinked)
    ELSE remove_target(F, item.target)

\* unlink_item without its test that a plain file or directory is left alone
unlink_item_unguarded(F, item, options) ==
    IF ~exists(F, item.target) /\ ~is_symlink(F, item.target)
    THEN Out(F, Skipped("does not exist"))
    ELSE IF is_symlink(F, item.target)
            /\ resolve_link(F, item.target) # item.source /\ ~item.is_template
    THEN Out(F, Skipped("symlink points elsewhere"))
    ELSE IF options.dry_run THEN Out(F, Unlinked)
    ELSE remove_target(F, item.target)

unlink_item(F, item, options) ==
    IF ~exists(F, item.target) /\ ~is_symlink(F, item.target)
    THEN Out(F, Skipped("does not exist"))
    ELSE IF is_symlink(F, item.target)
            /\ resolve_link(F, item.target) # item.source /\ ~item.is_template
    THEN Out(F, Skipped("symlink points elsewhere"))
    ELSE IF ~is_symlink(F, item.target) /\ ~item.is_template /\ ~is_copy(item.strategy)
    THEN Out(F, Skipped("not a symlink"))
    ELSE IF options.dry_run THEN Out(F, Unlinked)
    ELSE remove_target(F, item.target)

unlink_from_manifest(F, target, entry, options) ==
    IF ~exists(F, target) /\ ~is_symlink(F, target)
    THEN Out(F, Skipped("does not exist"))
    ELSE IF options.dry_run THEN Out(F, Unlinked)
    ELSE IF entry = "Symlink"
    THEN IF is_symlink(F, target)
         THEN remove_link_or_file(F, target)
         ELSE Out(F, Skipped("expected symlink, found regular file"))
    ELSE IF entry = "Copy"
    THEN remove_target(F, target)
    ELSE IF is_file(F, target)
         THEN remove_link_or_file(F, target)
         ELSE Out(F, Skipped("expected file, found directory"))

(***************************************************************************)
(* status.rs                                                               *)
(***************************************************************************)
\* an ItemStatus value; only External carries a path
ItemStatus(status, path) == [status |-> status, path |-> path]

\* check_item_status without the repository-root alternative of Linked
check_item_status_source_only(F, item, repo_path) ==
    IF item.is_template
    THEN IF exists(F, item.target) THEN ItemStatus("Rendered", <<>>)
         ELSE ItemStatus("Missing", <<>>)
    ELSE IF ~exists(F, item.target) /\ ~is_symlink(F, item.target)
    THEN ItemStatus("Missing", <<>>)
    ELSE IF ~is_symlink(F, item.target) THEN ItemStatus("Conflict", <<>>)
    ELSE Then(resolve_link(F, item.target), LAMBDA resolved :
         IF resolved = item.source
         THEN ItemStatus("Linked", <<>>)
         ELSE ItemStatus("External", resolved))

check_item_status(F, item, repo_path) ==
    IF item.is_template
    THEN IF exists(F, item.target) THEN ItemStatus("Rendered", <<>>)
         ELSE ItemStatus("Missing", <<>>)
    ELSE IF ~exists(F, item.target) /\ ~is_symlink(F, item.target)
    THEN ItemStatus("Missing", <<>>)
    ELSE IF ~is_symlink(F, item.target) THEN ItemStatus("Conflict", <<>>)
    ELSE Then(resolve_link(F, item.target), LAMBDA resolved :
         IF resolved = item.source \/ starts_with(resolved, repo_path)
         THEN ItemStatus("Linked", <<>>)
         ELSE ItemStatus("External", resolved))


(***************************************************************************)
(* The manifest (crate::manifest): an ordered mapping from relative path   *)
(* to entry kind, kept here as a sequence of <<path, entry>> pairs         *)
(***************************************************************************)
ManifestDefault == <<>>

manifest_is_empty(m) == Len(m) = 0

manifest_insert(m, path, entry) ==
    IF \E k \in 1..Len(m) : m[k][1] = path
    THEN [k \in 1..Len(m) |-> IF m[k][1] = path THEN <<path, entry>> ELSE m[k]]
    ELSE Append(m, <<path, entry>>)

(***************************************************************************)
(* The repository under reconciliation                                     *)
(***************************************************************************)
RepoPath == <<"repo">>
RepoTarget == <<"home">>
\* the second root lies inside the repository
ReplaceablePaths == {<<"rep">>, <<"repo", "d">>}

\* Path::extension and Path::file_stem on the file names of the model
extension(name) == IF name = "t.tmpl" THEN "tmpl" ELSE ""
file_stem(name) == IF name = "t.tmpl" THEN "t" ELSE name

\* repo.rs: compute_target
compute_target(base, relative, is_template) ==
    LET target == base \o relative IN
    IF is_template THEN Append(Parent(target), file_stem(FileName(target))) ELSE target

\* the RepoItem that collect_items_from builds for the source at `relative`
RepoItem(relative, strategy) ==
    LET is_template == extension(FileName(relative)) = "tmpl" IN
    [source |-> RepoPath \o relative,
     target |-> compute_target(RepoTarget, relative, is_template),
     relative_path |-> relative,
     is_template |-> is_template,
     strategy |-> strategy]

\* the item lists of the repositories that are checked
ItemLists ==
    { <<RepoItem(<<"f">>, "File")>>,
      <<RepoItem(<<"f">>, "Copy")>>,
      <<RepoItem(<<"d">>, "Directory")>>,
      <<RepoItem(<<"d">>, "Copy")>>,
      <<RepoItem(<<"d", "x">>, "File")>>,
      <<RepoItem(<<"l">>, "File")>>,
      <<RepoItem(<<"t.tmpl">>, "File")>>,
      <<RepoItem(<<"t.tmpl">>, "Copy")>>,
      <<RepoItem(<<"f">>, "File"), RepoItem(<<"t.tmpl">>, "File")>>,
      <<RepoItem(<<"d">>, "Copy"), RepoItem(<<"f">>, "Contents")>> }

NoVars == [defined |-> {}, val |-> [name |-> ""]]
NameVar == [defined |-> {"name"}, val |-> [name |-> "World"]]

\* the template text of repo/t.tmpl with the resolved variables it meets
Templates == {<<"{{name:Guest}}", NoVars>>, <<"{{name:Guest}}", NameVar>>, <<"{{name}}", NameVar>>}

\* what the source link repo/l may point at: a file of the repository, a
\* file outside it, nothing
SourceLinks == {<<"repo", "f">>, <<"ext", "e">>, <<"gone">>}

\* the source tree, an external directory, a replaceable directory and the
\* (empty) target root
BaseTree(text, sl) ==
    (<<"repo">> :> DirNode) @@ (<<"repo", "f">> :> FileNode("s")) @@
    (<<"repo", "d">> :> DirNode) @@ (<<"repo", "d", "x">> :> FileNode("sx")) @@
    (<<"repo", "t.tmpl">> :> FileNode(text)) @@
    (<<"repo", "l">> :> LinkNode(sl)) @@
    (<<"ext">> :> DirNode) @@ (<<"ext", "e">> :> FileNode("e")) @@
    (<<"rep">> :> DirNode) @@ (<<"rep", "r">> :> FileNode("r")) @@
    (<<"home">> :> DirNode)

TargetKinds ==
    {"absent", "file_user", "file_same", "dir_empty", "dir_full", "link_source",
     "link_repo", "link_replaceable", "link_external", "link_broken",
     "link_broken_repo", "link_broken_replaceable",
     "link_relative", "parent_link_repo"}

\* the content link_item would leave at the target of `item`
Wanted(F, item, v) ==
    IF item.is_template THEN render_string(ReadFile(F, item.source), v)
    ELSE IF CanRead(F, item.source) THEN ReadFile(F, item.source) ELSE "s"

\* the entries found below the target root before the tool first runs
TargetTree(F, item, v, kind) ==
    LET T == item.target
        up == IF Len(T) > 2 /\ kind # "parent_link_repo" /\ kind # "absent"
              THEN (Parent(T) :> DirNode) ELSE <<>>
    IN  CASE kind = "absent" -> <<>>
          [] kind = "file_user" -> (T :> FileNode("u")) @@ up
          [] kind = "file_same" -> (T :> FileNode(Wanted(F, item, v))) @@ up
          [] kind = "dir_empty" -> (T :> DirNode) @@ up
          [] kind = "dir_full" -> (T :> DirNode) @@ (Append(T, "y") :> FileNode("u")) @@ up
          [] kind = "link_source" -> (T :> LinkNode(item.source)) @@ up
          [] kind = "link_repo" -> (T :> LinkNode(<<"repo", "d">>)) @@ up
          [] kind = "link_replaceable" -> (T :> LinkNode(<<"rep", "r">>)) @@ up
          [] kind = "link_external" -> (T :> LinkNode(<<"ext", "e">>)) @@ up
          [] kind = "link_broken" -> (T :> LinkNode(<<"gone">>)) @@ up
          [] kind = "link_broken_repo" -> (T :> LinkNode(<<"repo", "gone">>)) @@ up
          [] kind = "link_broken_replaceable" -> (T :> LinkNode(<<"rep", "gone">>)) @@ up
          [] kind = "link_relative" ->
                (T :> RelLinkNode(<<"k">>)) @@ (Append(Parent(T), "k") :> FileNode("u")) @@ up
          [] kind = "parent_link_repo" ->
                IF Len(T) > 2 THEN (Parent(T) :> LinkNode(<<"repo", "d">>)) ELSE <<>>

Options == [dry_run : BOOLEAN, force : BOOLEAN]
\* unlinking never reads options.force
UnlinkOptions == [dry_run : BOOLEAN, force : {FALSE}]
Entries == {"Symlink", "Copy", "Rendered"}

Clock == 0..MaxClock

\* the options of a link call and the second at which it runs; the clock is
\* read only by backup_path, which runs only under force
LinkInputs == {x \in Options \X Clock : x[1].force \/ x[2] = 0}

NoOp == [op |-> "-", idx |-> 0, options |-> [dry_run |-> FALSE, force |-> FALSE],
         entry |-> "-", res |-> NoRes, results |-> <<>>]

Call(op, i, o, e, r, rs) ==
    [op |-> op, idx |-> i, options |-> o, entry |-> e, res |-> r, results |-> rs]

Init ==
    /\ items \in ItemLists
    /\ \E tv \in Templates, sl \in SourceLinks, kind \in TargetKinds :
         /\ (\A k \in 1..Len(items) : ~items[k].is_template) => tv = <<"{{name:Guest}}", NoVars>>
         /\ (items[1].source # <<"repo", "l">> => sl = <<"repo", "f">>)
         /\ (kind = "parent_link_repo" => Len(items[1].target) > 2)
         /\ (Len(items) > 1 => kind \in {"absent", "file_user", "link_external"})
         /\ vars = tv[2]
         /\ fs = TargetTree(BaseTree(tv[1], sl), items[1], vars, kind) @@ BaseTree(tv[1], sl)
    /\ saved = ManifestDefault
    /\ last = NoOp
    /\ pre = fs

(***************************************************************************)
(* Operations                                                              *)
(***************************************************************************)
Record(call, F) ==
    /\ fs' = F
    /\ pre' = fs
    /\ last' = call

LinkItem(i, o, t) ==
    \E out \in {link_item(fs, items[i], vars, RepoPath, ReplaceablePaths, o, t)} :
    /\ Record(Call("link_item", i, o, "-", out.res, <<>>), out.fs)
    /\ UNCHANGED <<items, vars, saved>>

UnlinkItem(i, o) ==
    \E out \in {unlink_item(fs, items[i], o)} :
    /\ Record(Call("unlink_item", i, o, "-", out.res, <<>>), out.fs)
    /\ UNCHANGED <<items, vars, saved>>

UnlinkFromManifest(i, e, o) ==
    \E out \in {unlink_from_manifest(fs, items[i].target, e, o)} :
    /\ Record(Call("unlink_from_manifest", i, o, e, out.res, <<>>), out.fs)
    /\ UNCHANGED <<items, vars, saved>>

CheckItemStatus(i) ==
    \E st \in {check_item_status(fs, items[i], RepoPath)} :
    /\ Record(Call("check_item_status", i, NoOp.options, "-",
                   Res(st.status, "-", "", st.path), <<>>), fs)
    /\ UNCHANGED <<items, vars, saved>>

ClassifyTarget(i) ==
    \E st \in {classify_target(fs, items[i].target, RepoPath, ReplaceablePaths)} :
    /\ Record(Call("classify_target", i, NoOp.options, "-",
                   Res(st.state, "-", "", st.resolved), <<>>), fs)
    /\ UNCHANGED <<items, vars, saved>>

\* the loop of run leaving at the first item that fails
RECURSIVE link_loop_aborting(_, _, _, _, _, _)
link_loop_aborting(st, k, its, v, o, t) ==
    IF k > Len(its) THEN st
    ELSE Then(link_item(st.fs, its[k], v, RepoPath, ReplaceablePaths, o, t), LAMBDA out :
         IF out.res.variant = "Err"
         THEN [fs |-> out.fs, results |-> Append(st.results, out.res),
               manifest |-> st.manifest]
         ELSE link_loop_aborting(
                  [fs |-> out.fs,
                   results |-> Append(st.results, out.res),
                   manifest |-> IF out.res.variant \in {"Created", "AlreadyCorrect", "BackedUp"}
                                THEN manifest_insert(st.manifest, its[k].relative_path,
                                                     out.res.entry)
                                ELSE st.manifest],
                  k + 1, its, v, o, t))

\* commands/link.rs: run, for the one repository
RECURSIVE link_loop(_, _, _, _, _, _)
link_loop(st, k, its, v, o, t) ==
    IF k > Len(its) THEN st
    ELSE Then(link_item(st.fs, its[k], v, RepoPath, ReplaceablePaths, o, t), LAMBDA out :
         link_loop([fs |-> out.fs,
                    results |-> Append(st.results, out.res),
                    manifest |-> IF out.res.variant \in {"Created", "AlreadyCorrect", "BackedUp"}
                                 THEN manifest_insert(st.manifest, its[k].relative_path,
                                                      out.res.entry)
                                 ELSE st.manifest],
                   k + 1, its, v, o, t))

link_run(F, its, v, o, t) ==
    link_loop([fs |-> F, results |-> <<>>, manifest |-> ManifestDefault], 1, its, v, o, t)

LinkPass(o, t) ==
    \E st \in {link_run(fs, items, vars, o, t)} :
    /\ Record(Call("link", 0, o, "-", NoRes, st.results), st.fs)
    /\ saved' = IF ~o.dry_run /\ ~manifest_is_empty(st.manifest) THEN st.manifest ELSE saved
    /\ UNCHANGED <<items, vars>>

\* commands/unlink.rs: run, for the one repository
RECURSIVE unlink_items_loop(_, _, _, _)
unlink_items_loop(st, k, its, o) ==
    IF k > Len(its) THEN st
    ELSE Then(unlink_item(st.fs, its[k], o), LAMBDA out :
         unlink_items_loop([fs |-> out.fs, results |-> Append(st.results, out.res)],
                           k + 1, its, o))

RECURSIVE unlink_manifest_loop(_, _, _, _)
unlink_manifest_loop(st, k, m, o) ==
    IF k > Len(m) THEN st
    ELSE Then(unlink_from_manifest(st.fs, RepoTarget \o m[k][1], m[k][2], o), LAMBDA out :
         unlink_manifest_loop([fs |-> out.fs, results |-> Append(st.results, out.res)],
                              k + 1, m, o))

\* run taking the enumerated items whatever the manifest holds
unlink_run_items_only(F, m, its, o) ==
    unlink_items_loop([fs |-> F, results |-> <<>>], 1, its, o)

unlink_run(F, m, its, o) ==
    IF manifest_is_empty(m)
    THEN unlink_items_loop([fs |-> F, results |-> <<>>], 1, its, o)
    ELSE unlink_manifest_loop([fs |-> F, results |-> <<>>], 1, m, o)

UnlinkPass(o) ==
    \E st \in {unlink_run(fs, saved, items, o)} :
    /\ Record(Call("unlink", 0, o, "-", NoRes, st.results), st.fs)
    /\ saved' = IF ~manifest_is_empty(saved) /\ ~o.dry_run THEN ManifestDefault ELSE saved
    /\ UNCHANGED <<items, vars>>

Next ==
    \/ \E i \in 1..Len(items), x \in LinkInputs : LinkItem(i, x[1], x[2])
    \/ \E i \in 1..Len(items), o \in UnlinkOptions : UnlinkItem(i, o)
    \/ \E i \in 1..Len(items), e \in Entries, o \in UnlinkOptions :
          UnlinkFromManifest(i, e, o)
    \/ \E i \in 1..Len(items) : CheckItemStatus(i)
    \/ \E i \in 1..Len(items) : ClassifyTarget(i)
    \/ \E x \in LinkInputs : LinkPass(x[1], x[2])
    \/ \E o \in UnlinkOptions : UnlinkPass(o)

Spec == Init /\ [][Next]_allvars

\* the tree stays a tree: every entry has a directory above it
WellFormed == \A p \in DOMAIN fs : IsDirAt(fs, Parent(p))

(***************************************************************************)
(* repo.rs: Repo::items over the repository's own items and its imports    *)
(***************************************************************************)
MaxItems == 2
MaxImports == 2

\* import.rs: includes_path, for the pattern "*" and for literal patterns
includes_path(import, relative_path) ==
    \E pattern \in import.paths :
        \/ pattern = <<"*">>
        \/ relative_path = pattern
        \/ (Len(relative_path) > Len(pattern) /\ starts_with(relative_path, pattern))

\* PathBuf::join: joining the empty path leaves a trailing separator, kept
\* here as an empty last component
join(to, stripped) == IF stripped = <<>> THEN Append(to, "") ELSE to \o stripped

\* import.rs: remap_path, the first remap whose `from` is a prefix applies
RECURSIVE find_map_remap(_, _, _)
find_map_remap(remap, k, relative_path) ==
    IF k > Len(remap) THEN relative_path
    ELSE IF starts_with(relative_path, remap[k].from)
         THEN join(remap[k].to,
                   SubSeq(relative_path, Len(remap[k].from) + 1, Len(relative_path)))
         ELSE find_map_remap(remap, k + 1, relative_path)

\* remap_path leaving every path as it is
remap_path_unchanged(import, relative_path) == relative_path

remap_path(import, relative_path) == find_map_remap(import.remap, 1, relative_path)

\* the item collect_items_from builds under source_root
CollectedItem(source_root, relative) ==
    [RepoItem(relative, "File") EXCEPT !.source = source_root \o relative]

\* the item as pushed: target and relative path follow the remapped path
Remapped(item, remapped) ==
    [item EXCEPT !.target = compute_target(RepoTarget, remapped, item.is_template),
                 !.relative_path = remapped]

\* repo.rs: the loop over one import's items
RECURSIVE import_items_loop(_, _, _)
import_items_loop(acc, import, j) ==
    IF j > Len(import.found) THEN acc
    ELSE Then(remap_path(import, import.found[j]), LAMBDA remapped :
         IF ~includes_path(import, import.found[j]) \/ remapped \in acc.seen_paths
         THEN import_items_loop(acc, import, j + 1)
         ELSE import_items_loop(
                  [items |-> Append(acc.items,
                                    Remapped(CollectedItem(import.local_path, import.found[j]),
                                             remapped)),
                   seen_paths |-> acc.seen_paths \cup {remapped}],
                  import, j + 1))

\* repo.rs: the loop over the imports; one whose path is missing is passed over
RECURSIVE imports_loop(_, _, _)
imports_loop(acc, imports, k) ==
    IF k > Len(imports) THEN acc
    ELSE IF ~imports[k].available THEN imports_loop(acc, imports, k + 1)
    ELSE imports_loop(import_items_loop(acc, imports[k], 1), imports, k + 1)

\* repo.rs: Repo::items
Repo_items(native, imports) ==
    imports_loop([items |-> native,
                  seen_paths |-> {native[i].relative_path : i \in DOMAIN native}],
                 imports, 1).items

Distinct(s) == \A i, j \in DOMAIN s : i # j => s[i] # s[j]

\* the relative paths a walk of the repository may yield
RelPaths == {<<"f">>, <<"g">>, <<"d", "x">>, <<"e", "x">>}
Walks == {s \in UNION {[1..n -> RelPaths] : n \in 0..MaxItems} : Distinct(s)}

PathRemap(from, to) == [from |-> from, to |-> to]

\* an import: where it lies, what a walk of it yields, its path patterns,
\* its remaps, and whether its path exists
Import(local_path, found, paths, remap, available) ==
    [local_path |-> local_path, found |-> found, paths |-> paths, remap |-> remap,
     available |-> available]

ImportChoices ==
    { Import(<<"impA">>, <<<<"f">>>>, {<<"*">>}, <<>>, TRUE),
      Import(<<"impB">>, <<<<"d", "x">>, <<"f">>>>, {<<"d">>},
             <<PathRemap(<<"d">>, <<"e">>)>>, TRUE),
      Import(<<"impC">>, <<<<"e", "x">>, <<"f">>>>, {<<"*">>}, <<>>, TRUE),
      Import(<<"impD">>, <<<<"f">>>>, {<<"*">>}, <<PathRemap(<<"f">>, <<"g">>)>>, TRUE),
      Import(<<"impE">>, <<<<"d", "x">>, <<"e", "x">>>>, {<<"*">>},
             <<PathRemap(<<"d">>, <<"e">>)>>, TRUE),
      Import(<<"impG">>, <<<<"f">>>>, {<<"*">>}, <<>>, FALSE),
      Import(<<"impH">>, <<<<"d", "x">>>>, {<<"*">>},
             <<PathRemap(<<"d">>, <<"e">>), PathRemap(<<"d", "x">>, <<"g">>)>>, TRUE) }

ImportLists == {s \in UNION {[1..n -> ImportChoices] : n \in 0..MaxImports} : Distinct(s)}

\* the walk of the repository and the imports are drawn at the start
InitItems ==
    /\ items = <<>>
    /\ vars = NoVars
    /\ fs = BaseTree("", <<"repo", "f">>)
    /\ saved = ManifestDefault
    /\ \E walk \in Walks, imports \in ImportLists :
         last = [NoOp EXCEPT !.results = <<walk, imports>>]
    /\ pre = fs

Items ==
    /\ last.op = "-"
    /\ items' = Repo_items([i \in DOMAIN last.results[1] |->
                               RepoItem(last.results[1][i], "File")],
                           last.results[2])
    /\ last' = [last EXCEPT !.op = "items"]
    /\ UNCHANGED <<fs, vars, saved, pre>>

NextItems == Items

SpecItems == InitItems /\ [][NextItems]_allvars

(***************************************************************************)
(* config.rs and repo.rs: the strategy of a path and the walk of a source  *)
(* root.  A RepoConfig is kept as [declared, strategies, defaults]:        *)
(* `declared` lists the overrides as the configuration file declares them, *)
(* `strategies` lists the same overrides in the order the HashMap iterates *)
(***************************************************************************)
MaxOverrides == 2

Strategies == {"File", "Directory", "Contents", "Copy"}

\* strategy.rs: is_directory_unit
is_directory_unit(strategy) == strategy \in {"Directory", "Copy"}

\* str::starts_with on the file names of the model
name_starts_with(name, prefix) == name = prefix \/ (name = "dx" /\ prefix = "d")

\* str::starts_with on two relative paths written with "/"
str_starts_with(path, pattern) ==
    \/ pattern = <<>>
    \/ /\ Len(pattern) <= Len(path)
       /\ SubSeq(path, 1, Len(pattern) - 1) = Parent(pattern)
       /\ name_starts_with(path[Len(pattern)], FileName(pattern))

\* config.rs: glob_match, for the pattern "*" and for patterns without
\* wildcards
glob_match(pattern, path) == pattern = <<"*">> \/ pattern = path

\* config.rs: strategy_for_path, in the iteration order of the map
RECURSIVE strategy_for_path_from(_, _, _)
strategy_for_path_from(config, k, path) ==
    IF k > Len(config.strategies) THEN config.defaults
    ELSE IF str_starts_with(path, config.strategies[k][1])
            \/ glob_match(config.strategies[k][1], path)
    THEN config.strategies[k][2]
    ELSE strategy_for_path_from(config, k + 1, path)

strategy_for_path(config, path) == strategy_for_path_from(config, 1, path)

DEFAULT_IGNORES == {<<"homie.toml">>}

\* config.rs: is_ignored
is_ignored(config, path) ==
    \E pattern \in DEFAULT_IGNORES \cup config.ignore : glob_match(pattern, path)

\* repo.rs: a proper, non-empty ancestor of `relative` is a processed directory
has_processed_ancestor(processed_dirs, relative) ==
    \E n \in 1..(Len(relative) - 1) : SubSeq(relative, 1, n) \in processed_dirs

\* repo.rs: the walk of collect_items_from; `walk` is what WalkDir yields,
\* each entry as [relative, is_dir]
RECURSIVE collect_loop(_, _, _, _, _)
collect_loop(acc, source_root, walk, config, k) ==
    IF k > Len(walk) THEN acc
    ELSE IF is_ignored(config, walk[k].relative)
            \/ has_processed_ancestor(acc.processed_dirs, walk[k].relative)
    THEN collect_loop(acc, source_root, walk, config, k + 1)
    ELSE IF walk[k].is_dir
    THEN IF strategy_for_path(config, walk[k].relative) = "Directory"
         THEN collect_loop(
                  [items |-> Append(acc.items,
                                    [RepoItem(walk[k].relative, "Directory")
                                        EXCEPT !.source = source_root \o walk[k].relative]),
                   processed_dirs |-> acc.processed_dirs \cup {walk[k].relative}],
                  source_root, walk, config, k + 1)
         ELSE collect_loop(acc, source_root, walk, config, k + 1)
    ELSE collect_loop(
             [items |-> Append(acc.items,
                               [RepoItem(walk[k].relative,
                                         strategy_for_path(config, walk[k].relative))
                                   EXCEPT !.source = source_root \o walk[k].relative]),
              processed_dirs |-> acc.processed_dirs],
             source_root, walk, config, k + 1)

collect_items_from(source_root, walk, config) ==
    collect_loop([items |-> <<>>, processed_dirs |-> {}], source_root, walk, config, 1).items

DirEntry(relative, dir) == [relative |-> relative, is_dir |-> dir]

\* the source trees that are walked, parents before their entries
WalkDirs ==
    { <<DirEntry(<<"d">>, TRUE), DirEntry(<<"d", "x">>, FALSE), DirEntry(<<"dx">>, FALSE),
        DirEntry(<<"f">>, FALSE), DirEntry(<<"homie.toml">>, FALSE)>>,
      <<DirEntry(<<"d">>, TRUE), DirEntry(<<"d", "e">>, TRUE),
        DirEntry(<<"d", "e", "x">>, FALSE), DirEntry(<<"f">>, FALSE)>> }

\* the patterns an override may carry
Patterns == {<<"d">>, <<"d", "e">>, <<"*">>}

\* override lists: no pattern twice, as in a map
Overrides ==
    {s \in UNION {[1..n -> Patterns \X Strategies] : n \in 0..MaxOverrides} :
        \A i, j \in DOMAIN s : i # j => s[i][1] # s[j][1]}

\* the map iterates over the declared overrides in some order
RepoConfigs ==
    {c \in [declared : Overrides, strategies : Overrides,
            defaults : {"File", "Directory"}, ignore : {{}}] :
        /\ Len(c.declared) = Len(c.strategies)
        /\ {c.declared[i] : i \in DOMAIN c.declared}
              = {c.strategies[i] : i \in DOMAIN c.strategies}}

\* the tree and the configuration are drawn at the start
InitWalk ==
    /\ items = <<>>
    /\ vars = NoVars
    /\ fs = BaseTree("", <<"repo", "f">>)
    /\ saved = ManifestDefault
    /\ \E walk \in WalkDirs, config \in RepoConfigs :
         last = [NoOp EXCEPT !.results = <<walk, config>>]
    /\ pre = fs

CollectItems ==
    /\ last.op = "-"
    /\ items' = collect_items_from(RepoPath, last.results[1], last.results[2])
    /\ last' = [last EXCEPT !.op = "collect_items_from"]
    /\ UNCHANGED <<fs, vars, saved, pre>>

StrategyForPath(k) ==
    /\ last.op = "-"
    /\ k \in DOMAIN last.results[1]
    /\ last' = [last EXCEPT !.op = "strategy_for_path", !.idx = k,
                            !.res = Res(strategy_for_path(last.results[2],
                                                          last.results[1][k].relative),
                                        "-", "", last.results[1][k].relative)]
    /\ UNCHANGED <<fs, items, vars, saved, pre>>

NextWalk ==
    \/ CollectItems
    \/ \E k \in 1..5 : StrategyForPath(k)

SpecWalk == InitWalk /\ [][NextWalk]_allvars

(***************************************************************************)
(* commands/link.rs: run over one repository with imports: the fetch of    *)
(* the imports, the enumeration of the items and the linking.  The source  *)
(* of an import is "Local", or a git source whose commands succeed         *)
(* ("GitOk") or fail ("GitFails").                                          *)
(***************************************************************************)
ImportSources == {"Local", "GitOk", "GitFails"}

FilesOf(root, found) == {root \o found[j] : j \in DOMAIN found}
DirsOf(root, files) ==
    {root} \cup UNION {{SubSeq(p, 1, n) : n \in Len(root)..(Len(p) - 1)} : p \in files}

\* the directory `root` with the files `found` below it
TreeOf(root, found) ==
    [p \in FilesOf(root, found) \cup DirsOf(root, FilesOf(root, found)) |->
        IF p \in FilesOf(root, found) THEN FileNode("s") ELSE DirNode]

\* import.rs: git_clone and git_pull when they succeed
Cloned(F, import) == TreeOf(import.local_path, import.found) @@ F

\* import.rs: ensure_available
ensure_available(F, import, source, dry_run) ==
    IF source = "Local"
    THEN IF exists(F, import.local_path) THEN Ok(F) ELSE Fail(F)
    ELSE IF dry_run THEN Ok(F)
    ELSE IF source = "GitFails" THEN Fail(F)
    ELSE Ok(Cloned(F, import))

\* repo.rs: fetch_imports; `fetched` lists the imports it came to
RECURSIVE fetch_imports_from(_, _, _, _, _)
fetch_imports_from(st, imports, sources, dry_run, k) ==
    IF k > Len(imports) THEN st
    ELSE Then(ensure_available(st.fs, imports[k], sources[k], dry_run), LAMBDA r :
         IF ~r.ok
         THEN [ok |-> FALSE, fs |-> r.fs, fetched |-> Append(st.fetched, k)]
         ELSE fetch_imports_from([ok |-> TRUE, fs |-> r.fs,
                                  fetched |-> Append(st.fetched, k)],
                                 imports, sources, dry_run, k + 1))

fetch_imports(F, imports, sources, dry_run) ==
    fetch_imports_from([ok |-> TRUE, fs |-> F, fetched |-> <<>>], imports, sources,
                       dry_run, 1)

\* the imports with import_path.exists() as the filesystem has it
Present(F, imports) ==
    [k \in DOMAIN imports |-> [imports[k] EXCEPT !.available = exists(F, imports[k].local_path)]]

RunOut(ok, F, fetched, its, results, manifest) ==
    [ok |-> ok, fs |-> F, fetched |-> fetched, items |-> its, results |-> results,
     manifest |-> manifest]

\* commands/link.rs: run from repo.items() on
run_items(F, fetched, walk, imports, v, o) ==
    Then(Repo_items([i \in DOMAIN walk |-> RepoItem(walk[i], "File")], Present(F, imports)),
         LAMBDA its :
    Then(link_run(F, its, v, o, 0), LAMBDA ln :
         RunOut(TRUE, ln.fs, fetched, its, ln.results, ln.manifest)))

\* commands/link.rs: run
run(F, walk, imports, sources, v, o, no_fetch) ==
    IF ~no_fetch /\ imports # <<>>
    THEN Then(fetch_imports(F, imports, sources, o.dry_run), LAMBDA ft :
         IF ~ft.ok
         THEN RunOut(FALSE, ft.fs, ft.fetched, <<>>, <<>>, ManifestDefault)
         ELSE run_items(ft.fs, ft.fetched, walk, imports, v, o))
    ELSE run_items(F, <<>>, walk, imports, v, o)

\* the imports and the repository walks of the runs that are checked
RunImports == {i \in ImportChoices : i.local_path \in {<<"impA">>, <<"impC">>, <<"impG">>}}
RunImportLists == {s \in ImportLists : \A k \in DOMAIN s : s[k] \in RunImports}
RunWalks == {s \in Walks : Len(s) <= 1}

\* the tree before the run: the repository, the imports that are there, the
\* empty target root
RECURSIVE ImportTrees(_, _)
ImportTrees(imports, k) ==
    IF k > Len(imports) THEN (<<"home">> :> DirNode)
    ELSE IF imports[k].available
    THEN TreeOf(imports[k].local_path, imports[k].found) @@ ImportTrees(imports, k + 1)
    ELSE ImportTrees(imports, k + 1)

RunTree(walk, imports) == TreeOf(RepoPath, walk) @@ ImportTrees(imports, 1)

InitRun ==
    /\ items = <<>>
    /\ vars = NoVars
    /\ saved = ManifestDefault
    /\ \E walk \in RunWalks, imports \in RunImportLists, no_fetch \in BOOLEAN,
          dry_run \in BOOLEAN :
         \E sources \in [DOMAIN imports -> ImportSources] :
            /\ last = [NoOp EXCEPT !.options = [dry_run |-> dry_run, force |-> FALSE],
                                   !.results = <<walk, imports, sources, no_fetch>>]
            /\ fs = RunTree(walk, imports)
    /\ pre = fs

Run ==
    /\ last.op = "-"
    /\ \E out \in {run(fs, last.results[1], last.results[2], last.results[3], vars,
                       last.options, last.results[4])} :
         /\ fs' = out.fs
         /\ pre' = fs
         /\ items' = out.items
         /\ last' = [last EXCEPT !.op = "run",
                                 !.res = Res(IF out.ok THEN "Ok" ELSE "Err", "-", "", <<>>),
                                 !.results = last.results \o <<out.fetched, out.results>>]
         /\ saved' = IF out.ok /\ ~last.options.dry_run /\ ~manifest_is_empty(out.manifest)
                     THEN out.manifest ELSE saved
    /\ UNCHANGED vars

NextRun == Run

SpecRun == InitRun /\ [][NextRun]_allvars

(***************************************************************************)
(* Template items on their own: the templates of the repository, also one  *)
(* in a directory and ones that render to the empty text                   *)
(***************************************************************************)
TemplateItemLists ==
    { <<RepoItem(<<"t.tmpl">>, "File")>>,
      <<RepoItem(<<"t.tmpl">>, "Copy")>>,
      <<RepoItem(<<"d", "t.tmpl">>, "File")>> }

TemplateTexts == Templates \cup {<<"{{name?}}", NoVars>>, <<"{{name?}}", NameVar>>}

TemplateTree(text) ==
    (<<"repo", "d", "t.tmpl">> :> FileNode(text)) @@ BaseTree(text, <<"repo", "f">>)

InitTemplate ==
    /\ items \in TemplateItemLists
    /\ \E tv \in TemplateTexts, kind \in TargetKinds :
         /\ (kind = "parent_link_repo" => Len(items[1].target) > 2)
         /\ vars = tv[2]
         /\ fs = TargetTree(TemplateTree(tv[1]), items[1], vars, kind) @@ TemplateTree(tv[1])
    /\ saved = ManifestDefault
    /\ last = NoOp
    /\ pre = fs

NextTemplate == \E x \in LinkInputs : LinkItem(1, x[1], x[2])

SpecTemplate == InitTemplate /\ [][NextTemplate]_allvars

(***************************************************************************)
(* Copy-strategy items on their own: a file, a directory that may hold a   *)
(* symlink, a source that is itself a symlink, a file below a directory    *)
(***************************************************************************)
CopyItemLists ==
    { <<RepoItem(<<"f">>, "Copy")>>,
      <<RepoItem(<<"d">>, "Copy")>>,
      <<RepoItem(<<"l">>, "Copy")>>,
      <<RepoItem(<<"d", "x">>, "Copy")>> }

\* what repo/l may point at when it is copied: also a directory
CopySourceLinks == SourceLinks \cup {<<"repo", "d">>}

\* what repo/d/k is: not there, a symlink to a file, a dangling symlink
InnerLinks == {<<>>, <<"repo", "f">>, <<"gone">>}

CopyTree(sl, inner) ==
    IF inner = <<>> THEN BaseTree("{{name:Guest}}", sl)
    ELSE (<<"repo", "d", "k">> :> LinkNode(inner)) @@ BaseTree("{{name:Guest}}", sl)

InitCopy ==
    /\ items \in CopyItemLists
    /\ \E sl \in CopySourceLinks, inner \in InnerLinks, kind \in TargetKinds :
         /\ (items[1].source # <<"repo", "l">> => sl = <<"repo", "f">>)
         /\ (kind = "parent_link_repo" => Len(items[1].target) > 2)
         /\ vars = NoVars
         /\ fs = TargetTree(CopyTree(sl, inner), items[1], vars, kind) @@ CopyTree(sl, inner)
    /\ saved = ManifestDefault
    /\ last = NoOp
    /\ pre = fs

NextCopy == \E x \in LinkInputs : LinkItem(1, x[1], x[2])

SpecCopy == InitCopy /\ [][NextCopy]_allvars


(***************************************************************************)
(* repo.rs: Repo::items with the repository and each import walked by      *)
(* collect_items_from under the one configuration                          *)
(***************************************************************************)
\* the relative paths of collected items, in order
relative_paths(its) == [k \in DOMAIN its |-> its[k].relative_path]

\* Repo::items from the walks: an import's items are those its own walk gives
Repo_items_from(walk, config, imports) ==
    Repo_items(collect_items_from(RepoPath, walk, config),
               [k \in DOMAIN imports |->
                   Import(imports[k].local_path,
                          relative_paths(collect_items_from(imports[k].local_path,
                                                            imports[k].walk, config)),
                          imports[k].paths, imports[k].remap, TRUE)])

\* the repository trees of a pass: those of WalkDirs and one with a file
\* beside a template of the same stem
PassWalks ==
    WalkDirs \cup {<<DirEntry(<<"t">>, FALSE), DirEntry(<<"t.tmpl">>, FALSE)>>}

\* the trees of the imports, each at its own path
ImportWalks ==
    { [local_path |-> <<"impA">>,
       walk |-> <<DirEntry(<<"e">>, TRUE), DirEntry(<<"e", "x">>, FALSE)>>],
      [local_path |-> <<"impB">>, walk |-> <<DirEntry(<<"f">>, FALSE)>>],
      [local_path |-> <<"impC">>, walk |-> <<DirEntry(<<"t.tmpl">>, FALSE)>>] }

\* an import of a pass: its tree, everything included, at most one remap
PassImportChoices ==
    {[local_path |-> w.local_path, walk |-> w.walk, paths |-> {<<"*">>}, remap |-> r] :
        w \in ImportWalks, r \in {<<>>, <<PathRemap(<<"e">>, <<"d">>)>>}}

PassImportLists ==
    {s \in UNION {[1..n -> PassImportChoices] : n \in 0..MaxImports} :
        \A i, j \in DOMAIN s : i # j => s[i].local_path # s[j].local_path}

\* configurations with at most one override
PassConfigs == {c \in RepoConfigs : Len(c.strategies) <= 1}

\* the trees and the configuration are drawn at the start
InitPass ==
    /\ items = <<>>
    /\ vars = NoVars
    /\ fs = BaseTree("", <<"repo", "f">>)
    /\ saved = ManifestDefault
    /\ \E walk \in PassWalks, config \in PassConfigs, imports \in PassImportLists :
         last = [NoOp EXCEPT !.results = <<walk, config, imports>>]
    /\ pre = fs

PassItems ==
    /\ last.op = "-"
    /\ items' = Repo_items_from(last.results[1], last.results[2], last.results[3])
    /\ last' = [last EXCEPT !.op = "items"]
    /\ UNCHANGED <<fs, vars, saved, pre>>

NextPass == PassItems

SpecPass == InitPass /\ [][NextPass]_allvars


(***************************************************************************)
(* linker.rs: the forced arm of symlink_item with entries already lying    *)
(* at the backup paths                                                     *)
(***************************************************************************)
BackupItemLists ==
    { <<RepoItem(<<"f">>, "File")>>,
      <<RepoItem(<<"d">>, "Directory")>>,
      <<RepoItem(<<"d", "x">>, "File")>>,
      <<RepoItem(<<"f">>, "Copy")>>,
      <<RepoItem(<<"t.tmpl">>, "File")>> }

\* what lies at a backup path before the call
BackupKinds == {"none", "file", "dir"}

\* the entries at the backup paths of `target`, one kind for each time
BackupTree(target, kinds) ==
    [p \in {backup_path(target, t) : t \in {c \in Clock : kinds[c] # "none"}} |->
        IF \E t \in Clock : p = backup_path(target, t) /\ kinds[t] = "file"
        THEN FileNode("old") ELSE DirNode]

InitBackup ==
    /\ items \in BackupItemLists
    /\ vars = NoVars
    /\ \E kind \in {"absent", "file_user", "dir_empty", "dir_full", "link_source"},
          kinds \in [Clock -> BackupKinds] :
         fs = BackupTree(items[1].target, kinds)
                 @@ TargetTree(BaseTree("", <<"repo", "f">>), items[1], vars, kind)
                 @@ BaseTree("", <<"repo", "f">>)
    /\ saved = ManifestDefault
    /\ last = NoOp
    /\ pre = fs

NextBackup == \E x \in LinkInputs : LinkItem(1, x[1], x[2])

SpecBackup == InitBackup /\ [][NextBackup]_allvars


(***************************************************************************)
(* The claims.  `last` is the call that was made last, `pre` the           *)
(* filesystem it started from and `fs` the filesystem it left.             *)
(***************************************************************************)
LastItem == items[last.idx]
Target == LastItem.target
Source == LastItem.source

IsLinkCall == last.op = "link_item"
RealRun == ~last.options.dry_run
Variant == last.res.variant

\* the target itself (not what it may point at) is a regular file / directory
RegularFileAt(F, p) == LNode(F, p).kind = "file"
DirectoryAt(F, p) == LNode(F, p).kind = "dir"
TargetUntouched == LNode(fs, Target) = LNode(pre, Target)

\* the items that link_item hands to symlink_item
SymlinkStrategy(item) == item.strategy \in {"File", "Directory", "Contents"}
BrokenSource(F, item) == is_symlink(F, item.source) /\ ~exists(F, item.source)
ReachesSymlinkItem(F, item) ==
    ~item.is_template /\ SymlinkStrategy(item) /\ ~BrokenSource(F, item)


Absent(F, p) == ~exists(F, p) /\ ~is_symlink(F, p)
Linked == {"Created", "AlreadyCorrect", "BackedUp"}

\* the target is a symbolic link whose value is the source, or the real path
\* the source resolved to when the link was made
LinksToSource ==
    /\ is_symlink(fs, Target)
    /\ resolve_link(fs, Target) \in {Source, canonicalize(pre, Source)}

\* what lies in the repository's source tree
SourceTree(F) == [p \in {q \in DOMAIN F : starts_with(q, RepoPath)} |-> F[p]]

ExternalLinkAt(F, p) ==
    classify_target(F, p, RepoPath, ReplaceablePaths).state = "SymlinkToExternal"

(* C1: for an item of any kind, when the target is a regular file and force
   is false, link_item returns Skipped and the target stays the same regular
   file, byte for byte.  Stated for the calls that are no dry run and end in
   no I/O error.  (As claimed; the code overwrites the file for Copy-strategy
   items and for templates.) *)
C1_SkipsRegularFile ==
    (IsLinkCall /\ RealRun /\ RegularFileAt(pre, Target) /\ ~last.options.force
        /\ Variant # "Err")
        => (Variant = "Skipped" /\ RegularFileAt(fs, Target) /\ TargetUntouched)

(* C2 as claimed: when the target is a regular file and force is true, a
   non-dry-run link_item on a (non-template) symlink-strategy item returns
   BackedUp, the original file is at backup_path and the target is a symlink
   to the source. *)
C2_Original ==
    (IsLinkCall /\ RealRun /\ last.options.force /\ RegularFileAt(pre, Target)
        /\ ~LastItem.is_template /\ SymlinkStrategy(LastItem))
        => (/\ Variant = "BackedUp"
            /\ LNode(fs, last.res.backup_path) = LNode(pre, Target)
            /\ LinksToSource)

(* C2 as amended: the same, for an item whose source is not a dangling
   symlink (link_item skips a dangling source before it looks at the target):
   the result is BackedUp, the file that was at the target is at backup_path
   with its content unchanged, and the target is a symlink to the source. *)
C2_BackedUp ==
    (IsLinkCall /\ RealRun /\ last.options.force /\ RegularFileAt(pre, Target)
        /\ ReachesSymlinkItem(pre, LastItem))
        => (/\ Variant = "BackedUp"
            /\ last.res.backup_path # Target
            /\ LNode(fs, last.res.backup_path) = LNode(pre, Target)
            /\ LinksToSource)

C2_Witness ==
    /\ IsLinkCall /\ RealRun /\ last.options.force
    /\ RegularFileAt(pre, Target) /\ LNode(pre, Target).content = "u"
    /\ ReachesSymlinkItem(pre, LastItem)
    /\ Variant = "BackedUp"
    /\ LNode(fs, last.res.backup_path) = FileNode("u")

(* C3: when the target is a symlink to an existing path outside the
   repository and outside every replaceable root, link_item returns Skipped
   and leaves the link as it is, and so does unlink_item.  (As claimed; the
   code removes or writes through the link for Copy-strategy items and
   templates.) *)
C3_ExternalLinkKept ==
    (last.op \in {"link_item", "unlink_item"} /\ ExternalLinkAt(pre, Target))
        => (Variant = "Skipped" /\ fs = pre)

(* C4: a dry run returns the result variant the real run returns on the same
   filesystem, for every item, every force setting and every filesystem the
   program reaches (real runs that end in an I/O error set aside).  (As
   claimed; render_template returns Created in a dry run before it compares
   the target.) *)
C4_DryRunSameVariant ==
    \A i \in 1..Len(items), f \in BOOLEAN :
        LET real == link_item(fs, items[i], vars, RepoPath, ReplaceablePaths,
                              [dry_run |-> FALSE, force |-> f], 0).res.variant
            dry == link_item(fs, items[i], vars, RepoPath, ReplaceablePaths,
                             [dry_run |-> TRUE, force |-> f], 0).res.variant
        IN  real # "Err" => dry = real

(* C5: a call with dry_run set changes nothing: link_item, unlink_item,
   unlink_from_manifest and the link and unlink passes leave every file,
   directory and link (target, parents, backup path, source) and the saved
   manifest as they were. *)
C5_DryRunNoMutation ==
    [][(last'.options.dry_run
          /\ last'.op \in {"link_item", "unlink_item", "unlink_from_manifest", "link", "unlink"})
        => (fs' = fs /\ saved' = saved)]_allvars

\* a dry-run link pass over a target that a real pass would back up and link
C5_Witness ==
    /\ last.op = "link" /\ last.options.dry_run
    /\ \E k \in 1..Len(last.results) : last.results[k].variant = "BackedUp"
    /\ fs = pre

(* C6: a second link_item on an item that the first link_item linked returns
   AlreadyCorrect and changes nothing.  (As claimed; symlink_item removes and
   re-creates a link that is already right and returns Created.) *)
C6_SecondLinkAlreadyCorrect ==
    [][(/\ IsLinkCall /\ RealRun /\ Variant \in Linked
        /\ last'.op = "link_item" /\ last'.idx = last.idx
        /\ last'.options = last.options)
       => (last'.res.variant = "AlreadyCorrect" /\ fs' = fs)]_allvars

(* C7: a non-dry-run link_item that succeeds on a non-template item (symlink
   or Copy strategy; the source a file, a directory or a symlink), followed by
   a non-dry-run unlink_item on the same item, leaves the target absent and
   the source tree as it was.  (As claimed; a link made for a source that is a
   symlink holds the source's real path, which unlink_item does not accept.) *)
C7_RoundTrip ==
    [][(/\ IsLinkCall /\ RealRun /\ Variant \in Linked /\ ~LastItem.is_template
        /\ last'.op = "unlink_item" /\ last'.idx = last.idx
        /\ ~last'.options.dry_run)
       => (Absent(fs', Target) /\ SourceTree(fs') = SourceTree(pre))]_allvars

(* C8: when the manifest entry is Copy and the target is a symlink,
   unlink_from_manifest returns Skipped and the symlink stays.  (As claimed;
   the Copy arm removes whatever is at the target.) *)
C8_CopyEntryKeepsSymlink ==
    (last.op = "unlink_from_manifest" /\ last.entry = "Copy" /\ is_symlink(pre, Target))
        => (Variant = "Skipped" /\ fs = pre)

(* C9: when the target does not exist, a non-dry-run link_item on a
   non-template symlink-strategy item (whose source is not a dangling link)
   returns Created, the target's parent directories exist, the target is a
   symlink through which the source's content is read, and check_item_status
   called next on that item reports Linked.  (As claimed; the status of a link
   made for a source that is a symlink to a file outside the repository is
   External.) *)
C9_CreatedThenLinked ==
    [][(IsLinkCall /\ RealRun /\ Absent(pre, Target) /\ ReachesSymlinkItem(pre, LastItem))
       => (/\ Variant = "Created"
           /\ is_dir(fs, Parent(Target))
           /\ is_symlink(fs, Target)
           /\ canonicalize(fs, Target) = canonicalize(pre, Source)
           /\ (last'.op = "check_item_status" /\ last'.idx = last.idx
                 => last'.res.variant = "Linked"))]_allvars

\* the value of the link at p, a relative one joined once to the link's parent
LinkValue(F, p) ==
    IF LNode(F, p).abs THEN LNode(F, p).link ELSE Parent(p) \o LNode(F, p).link

UnderReplaceable(p) == \E r \in ReplaceablePaths : starts_with(p, r)

IsClassifyCall == last.op = "classify_target"

(* C11: a symlink whose resolved link value does not exist is classified
   BrokenSymlink by classify_target, also when that value lies, as text, under
   the repository root or under a replaceable root. *)
C11_DanglingIsBroken ==
    (IsClassifyCall /\ is_symlink(fs, Target) /\ ~exists(fs, LinkValue(fs, Target)))
        => Variant = "BrokenSymlink"

\* a dangling link into the repository root, and one into a replaceable root
C11_Witness ==
    /\ IsClassifyCall /\ is_symlink(fs, Target) /\ ~exists(fs, LinkValue(fs, Target))
    /\ starts_with(LinkValue(fs, Target), RepoPath)
    /\ Variant = "BrokenSymlink"

(* C12: classify_target follows the decision tree: NotExists exactly when the
   path neither exists nor is a symlink; for a symlink whose resolved value
   exists, SymlinkToRepo when the value is under the repository root (also
   when it is under a replaceable root as well), else SymlinkToReplaceable
   when it is under a replaceable root, else SymlinkToExternal with the
   resolved path; for a path that is no symlink, Directory when it is a
   directory, else RegularFile. *)
C12_DecisionTree ==
    IsClassifyCall =>
        /\ (Variant = "NotExists") <=> (~exists(fs, Target) /\ ~is_symlink(fs, Target))
        /\ (is_symlink(fs, Target) /\ exists(fs, LinkValue(fs, Target))) =>
              /\ starts_with(LinkValue(fs, Target), RepoPath) => Variant = "SymlinkToRepo"
              /\ (~starts_with(LinkValue(fs, Target), RepoPath)
                    /\ UnderReplaceable(LinkValue(fs, Target)))
                   => Variant = "SymlinkToReplaceable"
              /\ (~starts_with(LinkValue(fs, Target), RepoPath)
                    /\ ~UnderReplaceable(LinkValue(fs, Target)))
                   => (/\ Variant = "SymlinkToExternal"
                       /\ last.res.backup_path = LinkValue(fs, Target))
        /\ (~is_symlink(fs, Target) /\ exists(fs, Target)) =>
              Variant = (IF is_dir(fs, Target) THEN "Directory" ELSE "RegularFile")

\* a link whose value is under the repository root and under a replaceable root
C12_Witness ==
    /\ IsClassifyCall /\ is_symlink(fs, Target)
    /\ exists(fs, LinkValue(fs, Target))
    /\ starts_with(LinkValue(fs, Target), RepoPath)
    /\ UnderReplaceable(LinkValue(fs, Target))
    /\ Variant = "SymlinkToRepo"

\* the state classify_target gave the target before the last call
TargetStateBefore == classify_target(pre, Target, RepoPath, ReplaceablePaths).state

Replaced == {"SymlinkToRepo", "SymlinkToReplaceable", "BrokenSymlink"}

\* the target is a symlink through which the source is reached
ResolvesToSource ==
    /\ is_symlink(fs, Target)
    /\ exists(fs, Target)
    /\ canonicalize(fs, Target) = canonicalize(fs, Source)

(* C13 as claimed: for a non-template symlink-strategy item whose target is
   classified SymlinkToRepo, SymlinkToReplaceable or BrokenSymlink, a
   non-dry-run link_item returns Created, and afterwards the target is a
   symlink that resolves to the item's source. *)
C13_Original ==
    (IsLinkCall /\ RealRun /\ ~LastItem.is_template /\ SymlinkStrategy(LastItem)
        /\ TargetStateBefore \in Replaced)
        => (Variant = "Created" /\ ResolvesToSource)

(* C13 as amended: the same, for an item whose source is not a dangling
   symlink: link_item returns Created, the link that was at the target is
   gone, and the target is a symlink that resolves to the item's source. *)
C13_ReplacesLink ==
    (IsLinkCall /\ RealRun /\ ReachesSymlinkItem(pre, LastItem)
        /\ TargetStateBefore \in Replaced)
        => (/\ Variant = "Created"
            /\ ResolvesToSource
            /\ LinkValue(fs, Target) \in {Source, canonicalize(pre, Source)})

\* a dangling link at the target replaced by a link to the source
C13_Witness ==
    /\ IsLinkCall /\ RealRun /\ ReachesSymlinkItem(pre, LastItem)
    /\ TargetStateBefore = "BrokenSymlink"
    /\ Variant = "Created"
    /\ LinkValue(fs, Target) # LinkValue(pre, Target)
    /\ ResolvesToSource

FileExists == Skipped("file exists (use --force to backup)")

(* C14 as claimed: for a non-template symlink-strategy item whose target is
   classified RegularFile or Directory, link_item with force unset returns
   Skipped("file exists (use --force to backup)"), makes no backup and leaves
   the target as it is. *)
C14_Original ==
    (IsLinkCall /\ ~last.options.force /\ ~LastItem.is_template
        /\ SymlinkStrategy(LastItem)
        /\ TargetStateBefore \in {"RegularFile", "Directory"})
        => (last.res = FileExists /\ fs = pre)

(* C14 as amended: the same, for an item whose source is not a dangling
   symlink: the result is Skipped("file exists (use --force to backup)") and
   nothing on the filesystem changes, so no backup appears and the target is
   as it was. *)
C14_SkipsWithoutForce ==
    (IsLinkCall /\ ~last.options.force /\ ReachesSymlinkItem(pre, LastItem)
        /\ TargetStateBefore \in {"RegularFile", "Directory"})
        => (last.res = FileExists /\ fs = pre)

\* a real run without force over a directory that holds a user's file
C14_Witness ==
    /\ IsLinkCall /\ RealRun /\ ~last.options.force
    /\ ReachesSymlinkItem(pre, LastItem)
    /\ TargetStateBefore = "Directory"
    /\ Under(pre, Target) # {Target}
    /\ last.res = FileExists
    /\ fs = pre

IsUnlinkCall == last.op \in {"unlink_item", "unlink_from_manifest"}

(* C15: unlink_item and unlink_from_manifest return Skipped("does not exist")
   and change nothing when the target neither exists nor is a symlink; and an
   unlink of either kind made directly after a non-dry-run unlink that
   returned Unlinked finds that target absent: it returns
   Skipped("does not exist") and changes nothing. *)
C15_UnlinkIdempotent ==
    [][/\ (last'.op \in {"unlink_item", "unlink_from_manifest"}
              /\ Absent(fs, items[last'.idx].target))
          => (last'.res = Skipped("does not exist") /\ fs' = fs)
       /\ (IsUnlinkCall /\ RealRun /\ Variant = "Unlinked"
              /\ last'.op \in {"unlink_item", "unlink_from_manifest"}
              /\ last'.idx = last.idx)
          => (last'.res = Skipped("does not exist") /\ fs' = fs)]_allvars

\* an unlink that finds nothing where a link made under force (its backup is
\* still there) has been removed by an earlier unlink
C15_Witness ==
    /\ IsUnlinkCall /\ RealRun /\ last.res = Skipped("does not exist")
    /\ fs = pre
    /\ Absent(fs, Target)
    /\ exists(fs, backup_path(Target, 0))

(* C16: unlink_item on a target that is a regular file or a real directory,
   for an item that is neither a template nor a Copy-strategy item, returns
   Skipped("not a symlink") and changes nothing. *)
C16_KeepsPlainTarget ==
    (last.op = "unlink_item"
        /\ (RegularFileAt(pre, Target) \/ DirectoryAt(pre, Target))
        /\ ~LastItem.is_template /\ ~is_copy(LastItem.strategy))
        => (last.res = Skipped("not a symlink") /\ fs = pre)

\* a non-dry-run unlink_item over a directory that holds a user's file
C16_Witness ==
    /\ last.op = "unlink_item" /\ RealRun
    /\ DirectoryAt(pre, Target) /\ Under(pre, Target) # {Target}
    /\ ~LastItem.is_template /\ ~is_copy(LastItem.strategy)
    /\ last.res = Skipped("not a symlink")
    /\ fs = pre

(* C17 as claimed: unlink_item removes a target that is a symlink only when
   the link's resolved value equals the item's source; for every other value
   it returns Skipped("symlink points elsewhere") and keeps the link; and what
   it removes is the link alone, never what the link points at. *)
C17_Original ==
    (last.op = "unlink_item" /\ is_symlink(pre, Target))
        => /\ LinkValue(pre, Target) # Source
                => (last.res = Skipped("symlink points elsewhere") /\ fs = pre)
           /\ fs # pre
                => (/\ LinkValue(pre, Target) = Source
                    /\ fs = Without(pre, {LReal(pre, Target)}))

(* C17 as amended: the same for an item that is no template (for a template
   item unlink_item does not look at where the link points): a link whose
   resolved value differs from the item's source is kept with
   Skipped("symlink points elsewhere"), and a removal takes away the link
   alone, never what it points at. *)
C17_RemovesOnlyOwnLink ==
    (last.op = "unlink_item" /\ ~LastItem.is_template /\ is_symlink(pre, Target))
        => /\ LinkValue(pre, Target) # Source
                => (last.res = Skipped("symlink points elsewhere") /\ fs = pre)
           /\ fs # pre
                => (/\ LinkValue(pre, Target) = Source
                    /\ fs = Without(pre, {LReal(pre, Target)}))

\* a link to the source directory removed, the directory and its file kept
C17_Witness ==
    /\ last.op = "unlink_item" /\ RealRun /\ ~LastItem.is_template
    /\ is_symlink(pre, Target) /\ LinkValue(pre, Target) = Source
    /\ is_dir(pre, Source) /\ Under(pre, Source) # {Source}
    /\ Variant = "Unlinked"
    /\ Absent(fs, Target)
    /\ Under(fs, Source) = Under(pre, Source)

(* C18: unlink_from_manifest removes a target recorded as Symlink only when
   the target is a symlink, and a target recorded as Rendered only when the
   target itself is a regular file, no directory and no symlink; otherwise it
   returns Skipped and the target is unchanged.  Stated for the calls that are
   no dry run, on a target that is there.  (As claimed; the Rendered arm tests
   is_file, which follows a symlink to a regular file, and removes the
   link.) *)
C18_MismatchProtection ==
    (last.op = "unlink_from_manifest" /\ RealRun /\ ~Absent(pre, Target))
        => /\ (last.entry = "Symlink" /\ ~is_symlink(pre, Target))
                => (Variant = "Skipped" /\ fs = pre)
           /\ (last.entry = "Rendered" /\ ~RegularFileAt(pre, Target))
                => (Variant = "Skipped" /\ fs = pre)

IsStatusCall == last.op = "check_item_status"

(* C19: check_item_status changes nothing on the filesystem and reports, for
   a template item, Rendered when the target exists and Missing otherwise;
   for any other item, Missing when the target is absent, Conflict when it is
   there and is no symlink, Linked when it is a symlink whose resolved value is
   the item's source or lies under the repository root, and External with the
   resolved path otherwise. *)
C19_StatusAsSpecified ==
    IsStatusCall =>
        /\ fs = pre
        /\ LastItem.is_template =>
              Variant = (IF exists(fs, Target) THEN "Rendered" ELSE "Missing")
        /\ ~LastItem.is_template =>
              /\ Absent(fs, Target) => Variant = "Missing"
              /\ (~Absent(fs, Target) /\ ~is_symlink(fs, Target)) => Variant = "Conflict"
              /\ (is_symlink(fs, Target)
                    /\ (LinkValue(fs, Target) = Source
                          \/ starts_with(LinkValue(fs, Target), RepoPath)))
                   => Variant = "Linked"
              /\ (is_symlink(fs, Target)
                    /\ LinkValue(fs, Target) # Source
                    /\ ~starts_with(LinkValue(fs, Target), RepoPath))
                   => (Variant = "External"
                         /\ last.res.backup_path = LinkValue(fs, Target))

\* a link that is not to the item's source but into the repository: Linked
C19_Witness ==
    /\ IsStatusCall /\ ~LastItem.is_template
    /\ is_symlink(fs, Target)
    /\ LinkValue(fs, Target) # Source
    /\ starts_with(LinkValue(fs, Target), RepoPath)
    /\ Variant = "Linked"

\* the walk and the imports that Repo::items was called with
ItemsCalled == last.op = "items"
Natives == last.results[1]
Imports == last.results[2]

\* the import items that pass the include filter of an existing import, each
\* as <<import, position>>, and the path each is remapped to
Candidates ==
    {c \in (DOMAIN Imports) \X (1..MaxItems + 1) :
        /\ c[2] \in DOMAIN Imports[c[1]].found
        /\ Imports[c[1]].available
        /\ includes_path(Imports[c[1]], Imports[c[1]].found[c[2]])}
RemappedTo(c) == remap_path(Imports[c[1]], Imports[c[1]].found[c[2]])
Earlier(b, c) == b[1] < c[1] \/ (b[1] = c[1] /\ b[2] < c[2])
NativePaths == {Natives[i] : i \in DOMAIN Natives}
\* two relative paths are the same path when their components agree; a
\* trailing separator adds no component
components(p) == IF p # <<>> /\ p[Len(p)] = "" THEN SubSeq(p, 1, Len(p) - 1) ELSE p
SamePath(p, q) == components(p) = components(q)
Wins(c) ==
    /\ \A n \in NativePaths : ~SamePath(RemappedTo(c), n)
    /\ \A b \in Candidates : Earlier(b, c) => ~SamePath(RemappedTo(b), RemappedTo(c))
Emitted(c) ==
    \E i \in DOMAIN items :
        /\ items[i].source = Imports[c[1]].local_path \o Imports[c[1]].found[c[2]]
        /\ items[i].relative_path = RemappedTo(c)

\* C20: the relative paths Repo::items returns are pairwise distinct after
\* remapping; the repository's own items are all kept, in front; an import
\* item is returned exactly when its remapped path is neither a native path
\* nor the remapped path of an earlier import item
C20_DistinctPaths ==
    ItemsCalled =>
        /\ \A i, j \in DOMAIN items :
              i # j => ~SamePath(items[i].relative_path, items[j].relative_path)
        /\ Len(items) = Len(Natives) + Cardinality({c \in Candidates : Wins(c)})
        /\ \A i \in DOMAIN Natives :
              /\ items[i].relative_path = Natives[i]
              /\ items[i].source = RepoPath \o Natives[i]
        /\ \A c \in Candidates : Emitted(c) <=> Wins(c)

\* the tree and the configuration that were drawn
Walked == last.results[1]
Config == last.results[2]
ItemPaths == {items[i].relative_path : i \in DOMAIN items}
IsProperAncestor(a, p) == Len(a) < Len(p) /\ starts_with(p, a)
\* the entries of the walk that are not ignored
Kept == {k \in DOMAIN Walked : ~is_ignored(Config, Walked[k].relative)}
\* a directory above entry k is a directory unit
UnderUnit(k) ==
    \E a \in Kept :
        /\ Walked[a].is_dir
        /\ IsProperAncestor(Walked[a].relative, Walked[k].relative)
        /\ is_directory_unit(strategy_for_path(Config, Walked[a].relative))

\* C21: a directory is one item, with nothing below it an item, exactly when
\* the strategy of its relative path is Directory or Copy (and no directory
\* above it is such a unit already); the files of other directories are
\* items of their own
C21_DirectoryUnits ==
    last.op = "collect_items_from" =>
        \A k \in Kept :
            /\ Walked[k].is_dir =>
                  (Walked[k].relative \in ItemPaths
                     <=> /\ is_directory_unit(strategy_for_path(Config, Walked[k].relative))
                         /\ ~UnderUnit(k))
            /\ ~Walked[k].is_dir => (Walked[k].relative \in ItemPaths <=> ~UnderUnit(k))

\* the strategy the declaration order gives: the first override that matches
\* the path exactly or as a glob, else the default
RECURSIVE first_declared_from(_, _, _)
first_declared_from(config, k, path) ==
    IF k > Len(config.declared) THEN config.defaults
    ELSE IF glob_match(config.declared[k][1], path) THEN config.declared[k][2]
    ELSE first_declared_from(config, k + 1, path)

\* C22: strategy_for_path returns the strategy of the first declared override
\* whose pattern matches the path exactly or by glob, and the default of the
\* repository when none matches
C22_FirstDeclaredWins ==
    last.op = "strategy_for_path" =>
        last.res.variant = first_declared_from(Config, 1, last.res.backup_path)

IsLinkPass == last.op = "link"
IsUnlinkPass == last.op = "unlink"
Failed(r) == r.variant = "Err"
Recorded(m, path) == \E j \in DOMAIN m : m[j][1] = path

\* C23: a failing item does not end a pass: a link pass reports one result
\* per item, in order, whatever failed, and the manifest it writes holds no
\* entry for an item that failed; an unlink pass reports one result per item
\* (or per manifest entry).  In this model only link_item fails.
C23_ErrorDoesNotAbort ==
    [][(last'.op = "link" =>
           /\ Len(last'.results) = Len(items)
           /\ \A k \in DOMAIN last'.results :
                 Failed(last'.results[k]) =>
                    (saved' = saved \/ ~Recorded(saved', items[k].relative_path)))
       /\ (last'.op = "unlink" =>
              Len(last'.results)
                 = IF manifest_is_empty(saved) THEN Len(items) ELSE Len(saved))
      ]_allvars

\* the first item of a pass failed, the second was linked and recorded
C23_Witness ==
    /\ IsLinkPass
    /\ Len(last.results) = 2
    /\ Failed(last.results[1])
    /\ last.results[2].variant = "Created"
    /\ Recorded(saved, items[2].relative_path)
    /\ ~Recorded(saved, items[1].relative_path)

\* what a run was given and what it did
IsRun == last.op = "run"
RunWalk == last.results[1]
RunImportList == last.results[2]
RunSources == last.results[3]
NoFetch == last.results[4]
Fetched == last.results[5]
RunResults == last.results[6]
RunOk == last.res.variant = "Ok"
\* the fetch step ran and did more than print
Fetching == ~NoFetch /\ RunImportList # <<>>
GitFailed(k) == RunSources[k] = "GitFails" /\ ~last.options.dry_run
LocalMissing(k) == RunSources[k] = "Local" /\ ~RunImportList[k].available
\* every item of the repository itself was handed to link_item
NativesLinked ==
    /\ Len(RunResults) = Len(items)
    /\ \A i \in DOMAIN RunWalk :
          \E n \in DOMAIN items : items[n].source = RepoPath \o RunWalk[i]

\* C24: when the git command of an import fails, the other imports are still
\* fetched, the items are enumerated and linked, and the command ends
\* without an error (no local import is missing here)
C24_GitFailureContained ==
    (IsRun /\ Fetching /\ \A k \in DOMAIN RunImportList : ~LocalMissing(k)) =>
        /\ RunOk
        /\ Fetched = [k \in DOMAIN RunImportList |-> k]
        /\ NativesLinked

\* every item of an import whose path is there has its remapped path among
\* the items of the run
OthersLinked ==
    \A k \in DOMAIN RunImportList :
        \A j \in DOMAIN RunImportList[k].found :
            (/\ exists(fs, RunImportList[k].local_path)
             /\ includes_path(RunImportList[k], RunImportList[k].found[j]))
               => \E n \in DOMAIN items :
                     SamePath(items[n].relative_path,
                              remap_path(RunImportList[k], RunImportList[k].found[j]))

\* C25: a run over a repository with an import whose local path does not
\* exist links every item of the repository and every item of the other
\* imports and ends without an error (no git command fails here)
C25_MissingImportSkipped ==
    (/\ IsRun
     /\ \E k \in DOMAIN RunImportList : ~exists(pre, RunImportList[k].local_path)
     /\ \A k \in DOMAIN RunImportList : ~GitFailed(k)) =>
        /\ RunOk
        /\ NativesLinked
        /\ OthersLinked

Succeeded(r) == r.variant \in {"Created", "AlreadyCorrect", "BackedUp"}
\* the entries a pass with these results is to leave in the manifest
EntriesOf(its, results) ==
    {<<its[k].relative_path, results[k].entry>> :
        k \in {n \in DOMAIN results : Succeeded(results[n])}}
SavedEntries == {saved[j] : j \in DOMAIN saved}

\* C26: after a link pass that is not a dry run the saved manifest holds
\* exactly one entry, of the result's kind, for each item whose result was
\* Created, AlreadyCorrect or BackedUp in this pass, and nothing else, also
\* when every item was skipped
C26_ManifestRewritten ==
    (IsLinkPass /\ ~last.options.dry_run) =>
        /\ SavedEntries = EntriesOf(items, last.results)
        /\ Len(saved) = Cardinality(SavedEntries)

\* C27: an unlink pass with an absent or empty manifest calls unlink_item
\* for the enumerated items and writes nothing; otherwise it calls
\* unlink_from_manifest for the recorded entries, in manifest order, and
\* leaves the manifest empty unless it is a dry run
C27_UnlinkPass ==
    [][last'.op = "unlink" =>
          IF manifest_is_empty(saved)
          THEN /\ saved' = saved
               /\ Len(last'.results) = Len(items)
               /\ last'.results[1] = unlink_item(fs, items[1], last'.options).res
          ELSE /\ saved' = IF last'.options.dry_run THEN saved ELSE ManifestDefault
               /\ Len(last'.results) = Len(saved)
               /\ last'.results[1]
                     = unlink_from_manifest(fs, RepoTarget \o saved[1][1], saved[1][2],
                                            last'.options).res
               /\ Len(saved) = 1 =>
                     fs' = unlink_from_manifest(fs, RepoTarget \o saved[1][1], saved[1][2],
                                                last'.options).fs
      ]_allvars

\* a pass over a manifest with one entry, in a repository of two items,
\* removed what the entry names and left the manifest empty
C27_Witness ==
    /\ IsUnlinkPass
    /\ ~last.options.dry_run
    /\ Len(items) = 2
    /\ Len(last.results) = 1
    /\ last.results[1].variant = "Unlinked"
    /\ manifest_is_empty(saved)

\* the text the template of the last call renders to, and its entry kind
Rendered == render_string(ReadFile(pre, Source), vars)
TemplateEntry == IF LastItem.strategy = "Copy" THEN "Copy" ELSE "Rendered"
\* the target, read through a link if it is one, holds exactly `text`
Holds(F, p, text) == exists(F, p) /\ is_file(F, p) /\ ReadFile(F, p) = text
TemplateCall == IsLinkCall /\ RealRun /\ LastItem.is_template

\* C28: a real link of a template item that does not fail returns
\* AlreadyCorrect and writes nothing when the target already holds exactly
\* the rendered text; else it writes the rendered text to the target,
\* creating the directories above it, and returns Created; the entry is Copy
\* for the Copy strategy and Rendered otherwise
C28_RendersTemplate ==
    (TemplateCall /\ ~Failed(last.res)) =>
        IF Holds(pre, Target, Rendered)
        THEN last.res = AlreadyCorrect(TemplateEntry) /\ fs = pre
        ELSE /\ last.res = Created(TemplateEntry)
             /\ Holds(fs, Target, Rendered)
             /\ is_dir(fs, Parent(Target))

CopyCall == IsLinkCall /\ RealRun /\ ~LastItem.is_template /\ LastItem.strategy = "Copy"
\* the target is a regular file with the bytes of the source file
Identical(F, s, t) == RegularFileAt(F, t) /\ is_file(F, s) /\ LNode(F, t).content = ReadFile(F, s)
\* the target is a directory with the entries of the source directory, each
\* a copy of the source's entry
CopiedDir(F, s, t) ==
    /\ is_dir(F, s)
    /\ DirectoryAt(F, t)
    /\ read_dir(F, t) = read_dir(F, s)
    /\ \A n \in read_dir(F, s) :
          \/ Identical(F, Append(s, n), Append(t, n))
          \/ (is_dir(F, Append(s, n)) /\ DirectoryAt(F, Append(t, n)))
\* nothing outside the target was changed or removed
OnlyTargetChanged ==
    \A p \in DOMAIN pre : ~starts_with(p, LReal(fs, Target)) => At(fs, p) = pre[p]

(* C29 as claimed: a real link of a non-template Copy item returns
   AlreadyCorrect and writes nothing when the target is a regular file with
   the bytes of the source file; otherwise it removes a symlink at the target,
   replaces a directory at the target when the source is a directory, copies
   the source and returns Created with the entry Copy, and the target is then
   a real file or directory with the content of the source. *)
C29_Original ==
    CopyCall =>
        IF Identical(pre, Source, Target)
        THEN last.res = AlreadyCorrect("Copy") /\ fs = pre
        ELSE /\ last.res = Created("Copy")
             /\ Identical(fs, Source, Target) \/ CopiedDir(fs, Source, Target)
             /\ OnlyTargetChanged

(* C29 as amended: the same, for an item whose source is not a dangling
   symlink (link_item skips a dangling source before copy_item runs) and for
   a call that ends in no I/O error. *)
C29_CopiesSource ==
    (CopyCall /\ ~BrokenSource(pre, LastItem) /\ ~Failed(last.res)) =>
        IF Identical(pre, Source, Target)
        THEN last.res = AlreadyCorrect("Copy") /\ fs = pre
        ELSE /\ last.res = Created("Copy")
             /\ Identical(fs, Source, Target) \/ CopiedDir(fs, Source, Target)
             /\ OnlyTargetChanged

\* a symlink at the target gave way to a copy of the source directory, the
\* symlink inside the source copied as the file it points at
C29_Witness ==
    /\ CopyCall
    /\ is_symlink(pre, Target)
    /\ last.res = Created("Copy")
    /\ CopiedDir(fs, Source, Target)
    /\ RegularFileAt(fs, Append(Target, "k"))
    /\ OnlyTargetChanged

\* the rules of an import whose `from` is a component-wise prefix of the path
MatchingRules(import, path) ==
    {r \in DOMAIN import.remap : starts_with(path, import.remap[r].from)}
\* the path the first matching rule makes of `path`: `to`, then what follows
\* the prefix; the path itself when no rule matches
ExpectedRemap(import, path) ==
    IF MatchingRules(import, path) = {} THEN path
    ELSE LET r == CHOOSE m \in MatchingRules(import, path) :
                      \A n \in MatchingRules(import, path) : m <= n
         IN  import.remap[r].to
                \o SubSeq(path, Len(import.remap[r].from) + 1, Len(path))
\* the path matches an include pattern: "*", itself, or a directory above it
Included(import, path) ==
    \E pattern \in import.paths : pattern = <<"*">> \/ starts_with(path, pattern)
\* the items that stem from entry j of import k
ItemsFrom(k, j) ==
    {i \in DOMAIN items : items[i].source = Imports[k].local_path \o Imports[k].found[j]}

\* C30: of an import only the items whose path, before remapping, matches an
\* include pattern are kept; the relative path of a kept item is rewritten
\* by the first remap rule whose `from` is a component-wise prefix of it and
\* is left alone when there is none; its target is the target root joined
\* with the remapped path; an included item is left out only when its
\* remapped path is there already
C30_IncludeAndRemap ==
    ItemsCalled =>
        \A k \in DOMAIN Imports : \A j \in DOMAIN Imports[k].found :
            Imports[k].available =>
                /\ ~Included(Imports[k], Imports[k].found[j]) => ItemsFrom(k, j) = {}
                /\ \A i \in ItemsFrom(k, j) :
                      /\ SamePath(items[i].relative_path,
                                  ExpectedRemap(Imports[k], Imports[k].found[j]))
                      /\ SamePath(items[i].target,
                                  compute_target(RepoTarget,
                                                 ExpectedRemap(Imports[k], Imports[k].found[j]),
                                                 items[i].is_template))
                /\ (Included(Imports[k], Imports[k].found[j]) /\ ItemsFrom(k, j) = {}) =>
                      \E i \in DOMAIN items :
                          SamePath(items[i].relative_path,
                                   ExpectedRemap(Imports[k], Imports[k].found[j]))

\* one import: its item d/x, which two rules match, became e/x by the first;
\* another left f out for its patterns and turned d/x into e/x
C30_Witness ==
    /\ ItemsCalled
    /\ \E k \in DOMAIN Imports :
          /\ Imports[k].local_path = <<"impH">>
          /\ \E i \in ItemsFrom(k, 1) :
                items[i].relative_path = <<"e", "x">> /\ items[i].target = <<"home", "e", "x">>
    /\ \E k \in DOMAIN Imports :
          /\ Imports[k].local_path = <<"impB">>
          /\ ItemsFrom(k, 2) = {}
          /\ \A i \in DOMAIN items : items[i].relative_path # <<"f">>

\* what the link at the target led to before the last call
ExternalFile == canonicalize(pre, Target)

(* C31: whatever the kind of item (symlink strategy, Copy strategy,
   template), when the target is a symlink that classify_target reports as
   SymlinkToExternal, link_item leaves the symlink in place and leaves the
   file it leads to as it was. *)
C31_ExternalLinkProtected ==
    (IsLinkCall /\ ExternalLinkAt(pre, Target))
        => (TargetUntouched /\ At(fs, ExternalFile) = At(pre, ExternalFile))

(* C32: link_item, unlink_item and unlink_from_manifest leave the source tree
   of the repository as it was: nothing in it is created, changed or removed,
   also when the target is, or lies behind, a symlink that leads into the
   repository. *)
C32_SourceReadOnly ==
    last.op \in {"link_item", "unlink_item", "unlink_from_manifest"}
        => SourceTree(fs) = SourceTree(pre)

\* an unlink pass, not a dry run, that follows a link pass, not a dry run
UnlinkAfterLink ==
    /\ IsLinkPass /\ ~last.options.dry_run
    /\ last'.op = "unlink" /\ ~last'.options.dry_run

(* C33: an unlink pass driven by the manifest addresses, for each entry, the
   target path the link pass materialised (for a template the path without
   its suffix): after a link pass and then an unlink pass, neither a dry
   run, nothing that the link pass created is left at its target. *)
C33_UnlinkRemovesCreated ==
    [][UnlinkAfterLink =>
          \A i \in 1..Len(items) :
              last.results[i].variant = "Created" => Absent(fs', items[i].target)
      ]_allvars

(* C34: unlink_from_manifest never removes a symlink the tool does not own:
   for a Symlink entry whose target is a symlink that resolves outside the
   repository the result is Skipped and the symlink stays. *)
C34_ManifestUnlinkKeepsExternal ==
    (/\ last.op = "unlink_from_manifest"
     /\ last.entry = "Symlink"
     /\ RealRun
     /\ ExternalLinkAt(pre, Target))
        => (Variant = "Skipped" /\ TargetUntouched)

\* the last call linked a symlink-strategy item for real and reported Created
CreatedSymlink ==
    /\ IsLinkCall /\ RealRun
    /\ ~LastItem.is_template /\ SymlinkStrategy(LastItem)
    /\ Variant = "Created"

(* C35: after link_item, not a dry run, returned Created for an item of a
   symlink strategy, a following link_item for the same item never returns
   Skipped and check_item_status reports Linked, also when the source is a
   symlink that resolves outside the repository. *)
C35_CreatedStaysLinked ==
    [][(CreatedSymlink /\ last'.idx = last.idx) =>
          /\ (last'.op = "link_item" => last'.res.variant # "Skipped")
          /\ (last'.op = "check_item_status" => last'.res.variant = "Linked")
      ]_allvars

\* the options of the last call with dry_run the other way round
OtherMode == [last.options EXCEPT !.dry_run = ~last.options.dry_run]

(* C36: unlink_item and unlink_from_manifest return the same variant with
   dry_run set as with dry_run clear on the same filesystem state; a
   mismatch that is Skipped in one mode is Skipped in the other. *)
C36_UnlinkDryRunSame ==
    /\ last.op = "unlink_item"
           => Variant = unlink_item(pre, LastItem, OtherMode).res.variant
    /\ last.op = "unlink_from_manifest"
           => Variant = unlink_from_manifest(pre, Target, last.entry, OtherMode).res.variant

\* the trees and the imports the item list of the last pass was made from
PassWalk == last.results[1]
PassImports == last.results[3]

\* the sources that are directories: an item with such a source was
\* emitted for the directory as a unit
DirectorySources ==
    {RepoPath \o PassWalk[k].relative : k \in {n \in DOMAIN PassWalk : PassWalk[n].is_dir}}
    \cup UNION {{PassImports[c].local_path \o PassImports[c].walk[k].relative :
                    k \in {n \in DOMAIN PassImports[c].walk : PassImports[c].walk[n].is_dir}} :
                c \in DOMAIN PassImports}

EmittedAsUnit(i) == items[i].source \in DirectorySources

(* C37: in the item list of one pass, the repository's own items and the
   imports' items after remapping, no item has a relative path with a proper
   ancestor that was emitted as a directory-unit item. *)
C37_NoItemUnderUnit ==
    last.op = "items" =>
        \A i, j \in DOMAIN items :
            EmittedAsUnit(i) =>
                ~IsProperAncestor(components(items[i].relative_path),
                                  components(items[j].relative_path))

(* C38: in the item list of one pass no two items have the same computed
   target path, for instance a file and a template whose name is the
   file's name with the template suffix. *)
C38_DistinctTargets ==
    last.op = "items" =>
        \A i, j \in DOMAIN items :
            i # j => ~SamePath(items[i].target, items[j].target)

\* the files below the target root before the last call
UserFiles == {p \in DOMAIN pre : pre[p].kind = "file" /\ starts_with(p, RepoTarget)}

(* C39: link_item with force set destroys no data: the file that lay at the
   target before the call, and the file that lay at the computed backup
   path, are still to be found afterwards, each with its content. *)
C39_ForcedKeepsData ==
    (IsLinkCall /\ RealRun /\ last.options.force) =>
        \A p \in UserFiles : \E q \in DOMAIN fs : fs[q] = pre[p]

\* link_item, not a dry run, is called again for the item of the last call,
\* itself a link_item that was not a dry run, with the same options
LinkedAgain ==
    /\ IsLinkCall /\ RealRun
    /\ last'.op = "link_item"
    /\ last'.idx = last.idx
    /\ last'.options = last.options

(* C40, as stated: link_item is idempotent on the state: called twice, not
   as a dry run, it leaves the filesystem as one call leaves it. *)
C40_Original ==
    [][LinkedAgain => fs' = fs]_allvars

(* C40: after a link_item, not a dry run, that ended without an error, a
   second link_item for the same item with the same options leaves the
   filesystem as the first left it: the same kind of entry at the target
   with the same link value or content, and no backup more. *)
C40_LinkIdempotent ==
    [][(LinkedAgain /\ Variant # "Err") => fs' = fs]_allvars

\* a forced call found the link of an earlier forced call in place, beside
\* the backup that call made of the user's file, and changed nothing
C40_Witness ==
    /\ IsLinkCall /\ RealRun /\ last.options.force
    /\ Variant \in Linked
    /\ fs = pre
    /\ \E t \in Clock : At(fs, backup_path(Target, t)) = FileNode("u")

====
